---------------------------- MODULE Spec2Model ----------------------------
(***************************************************************************)
(* A model of the stompest STOMP client as used by AMQMessageProducer:     *)
(*   - the wire-frame parser   (src/stompest/protocol/parser.py)           *)
(*   - the asynchronous client (src/stompest/async/client.py)              *)
(* A character is a one-element string; a byte string is a sequence of     *)
(* characters.                                                             *)
(***************************************************************************)
EXTENDS Integers, Sequences, FiniteSets, TLC

VARIABLES
    \* ---- StompParser (parser.py) ----
    version,      \* StompParser.version
    parse,        \* StompParser.parse: the name of the current per-character parser
    buffer,       \* StompParser._buffer
    frame,        \* StompParser._frame: the frame being built
    length,       \* StompParser._length
    read,         \* StompParser._read
    frames,       \* StompParser._frames: the queue of parsed frames and heart-beats
    \* ---- the parser's caller ----
    input,        \* the pieces the byte stream was made of
    wire,         \* the bytes not yet passed to add
    raised,       \* the exception the last add call ended with, or "none"
    got,          \* the frames and heart-beats the get calls returned so far, in order
    method,       \* the method of the parser called last, or "none"
    returned,     \* what the last get call returned
    \* ---- history of the parser ----
    stream,       \* the characters the body parser consumed for the frame being built
    emitted       \* per queued frame: the frame, its _length and its body stream

parserVars == <<version, parse, buffer, frame, length, read, frames,
                input, wire, raised, got, method, returned, stream, emitted>>

VARIABLES
    \* ---- StompSession (held by the client as self._session) ----
    sversion,         \* session.version
    sessionState,     \* session.state
    sessionSubs,      \* the subscription registry, in insertion order
    sessionReceipts,  \* the pending receipt ids
    sessionTransactions, \* the active transactions
    clientHeartBeat,  \* session.clientHeartBeat, in ms (0: none)
    serverHeartBeat,  \* session.serverHeartBeat, in ms (0: none)
    lastSent,         \* session.lastSent, in ticks of 0.1 s
    lastReceived,     \* session.lastReceived, in ticks of 0.1 s
    \* ---- Stomp (async/client.py) ----
    protocol,         \* self._protocol: "none" or "open"
    connecting,       \* self._connecting: TRUE while the negotiation waiter is registered
    disconnecting,    \* self._disconnecting
    disconnectReason, \* self._disconnectReason: "none" or a failure
    disconnected,     \* self._disconnected: "none" or "pending"
    messages,         \* self._messages: message-id -> in-flight handler marker
    receipts,         \* self._receipts: receipt id -> the operation waiting for it
    subscriptions,    \* self._subscriptions: token -> subscription
    heartBeats,       \* self._heartBeats: direction -> the tick its timer is due at
    \* ---- the coroutines of the client ----
    connectPc,        \* where connect is: "idle", "transport", "negotiating", "disconnecting"
    discPc,           \* where _disconnect is: "idle", "tick", "wait", "receipt"
    discReceipt,      \* the receipt argument of the _disconnect that is running
    drain,            \* the markers the cooperative task of _disconnect has yet to visit
    drainOn,          \* the marker that task is paused on, or "none"
    \* ---- the transport ----
    loseRequested,    \* protocol.loseConnection() was called on the open transport
    sent,             \* the frames written to the transport of this connection
    \* ---- what the caller observes ----
    connectResult,    \* the completion of the last connect: "none", "pending", "ok" or a failure
    results,          \* receipt id -> the completion of the operation sent with it
    outcomes,         \* how the disconnected completion of this connection resolved
    flushed,          \* the flush argument of session.close for this connection
    lostSubs,         \* the session's registry before the last loss that failed disconnected
    causes,           \* the failures assigned to _disconnectReason on this connection
    nconn,            \* the transport connections established so far
    ncalls,           \* the calls the caller made so far
    event,            \* the call or callback that ran last, and the exception it raised
    \* ---- the reactor ----
    now               \* time.time(), in ticks of 0.1 s

stompVars == <<sversion, sessionState, sessionSubs, sessionReceipts,
               sessionTransactions, clientHeartBeat, serverHeartBeat, lastSent,
               lastReceived, protocol, connecting,
               disconnecting, disconnectReason, disconnected, messages, receipts,
               subscriptions, heartBeats, connectPc, discPc, discReceipt, drain, drainOn,
               loseRequested, sent, connectResult, results, outcomes, flushed,
               lostSubs, causes, nconn, ncalls, event>>

clientVars == <<stompVars, now>>

VARIABLES
    \* ---- a call of the commands API (protocol/commands.py) ----
    arguments,    \* the function called and its arguments, or no call
    result        \* what the call returned or raised, or nothing yet

commandVars == <<arguments, result>>

VARIABLES
    \* ---- a call of send_message (AMQMessageProducer/messageProducer.py) ----
    producer      \* its arguments, where it is, the calls it made on its client,
                  \* and whether the connection of that client is open

producerVars == <<producer>>

vars == <<parserVars, clientVars, commandVars, producerVars>>

\* no call of send_message
ProducerIdle == producer = [pc |-> "none"]

\* no call of the commands API
CommandsIdle == arguments = [name |-> "none"] /\ result = [kind |-> "none"]

-----------------------------------------------------------------------------
(* StompSpec (spec.py) *)

VERSION_1_0 == "1.0"
VERSION_1_1 == "1.1"
VERSIONS == {VERSION_1_0, VERSION_1_1}
DEFAULT_VERSION == VERSION_1_0

ABORT == <<"A","B","O","R","T">>
ACK == <<"A","C","K">>
BEGIN == <<"B","E","G","I","N">>
COMMIT == <<"C","O","M","M","I","T">>
CONNECT == <<"C","O","N","N","E","C","T">>
DISCONNECT == <<"D","I","S","C","O","N","N","E","C","T">>
NACK == <<"N","A","C","K">>
SEND == <<"S","E","N","D">>
STOMP == <<"S","T","O","M","P">>
SUBSCRIBE == <<"S","U","B","S","C","R","I","B","E">>
UNSUBSCRIBE == <<"U","N","S","U","B","S","C","R","I","B","E">>

CLIENT_COMMANDS(v) ==
    IF v = VERSION_1_0
    THEN {ABORT, ACK, BEGIN, COMMIT, CONNECT, DISCONNECT, SEND, SUBSCRIBE, UNSUBSCRIBE}
    ELSE {ABORT, ACK, BEGIN, COMMIT, CONNECT, DISCONNECT, NACK, SEND, STOMP,
          SUBSCRIBE, UNSUBSCRIBE}

CONNECTED == <<"C","O","N","N","E","C","T","E","D">>
ERROR == <<"E","R","R","O","R">>
MESSAGE == <<"M","E","S","S","A","G","E">>
RECEIPT == <<"R","E","C","E","I","P","T">>

SERVER_COMMANDS(v) == {CONNECTED, ERROR, MESSAGE, RECEIPT}

\* the commands of the latest version, whatever the version
CommandsOfLatest(v) == CLIENT_COMMANDS(VERSION_1_1) \cup SERVER_COMMANDS(VERSION_1_1)

COMMANDS(v) == CLIENT_COMMANDS(v) \cup SERVER_COMMANDS(v)

LINE_DELIMITER == "LF"
FRAME_DELIMITER == "NUL"
HEADER_SEPARATOR == ":"

CONTENT_LENGTH_HEADER == <<"c","o","n","t","e","n","t","-","l","e","n","g","t","h">>

-----------------------------------------------------------------------------
(* Frames *)

NoHeaders == [n \in {} |-> <<>>]

\* StompFrame(): no command, no headers, empty body
NewFrame == [command |-> <<>>, headers |-> NoHeaders, body |-> <<>>]

\* StompHeartBeat()
HeartBeat == [heartBeat |-> TRUE]

IsFrame(x) == "command" \in DOMAIN x

\* the None that get returns
None == [none |-> TRUE]

-----------------------------------------------------------------------------
(* Python built-ins the parser uses *)

Digits == {"0", "1", "2", "3", "4", "5", "6", "7", "8", "9"}

DigitVal(c) ==
    CASE c = "0" -> 0 [] c = "1" -> 1 [] c = "2" -> 2 [] c = "3" -> 3 [] c = "4" -> 4
      [] c = "5" -> 5 [] c = "6" -> 6 [] c = "7" -> 7 [] c = "8" -> 8 [] c = "9" -> 9

RECURSIVE Decimal(_)
Decimal(s) == IF s = <<>> THEN 0
              ELSE 10 * Decimal(SubSeq(s, 1, Len(s) - 1)) + DigitVal(s[Len(s)])

AllDigits(s) == s # <<>> /\ \A i \in 1..Len(s) : s[i] \in Digits

\* int(s) is defined for an optionally signed, non-empty run of digits
IntOk(s) == \/ AllDigits(s)
            \/ Len(s) > 1 /\ s[1] \in {"-", "+"} /\ AllDigits(Tail(s))

ToInt(s) == IF AllDigits(s) THEN Decimal(s)
            ELSE IF s[1] = "-" THEN 0 - Decimal(Tail(s)) ELSE Decimal(Tail(s))

\* the index of the first sep in s, 0 if there is none
RECURSIVE IndexFrom(_, _, _)
IndexFrom(s, sep, i) ==
    IF i > Len(s) THEN 0 ELSE IF s[i] = sep THEN i ELSE IndexFrom(s, sep, i + 1)

Index(s, sep) == IndexFrom(s, sep, 1)

-----------------------------------------------------------------------------
(* StompParser: the parser as a value. err is the exception a character    *)
(* raised ("none" when it raised nothing).                                 *)

\* _flush
Flush(p) == [p EXCEPT !.buffer = <<>>]

\* _transition
Transition(p, state) == [Flush(p) EXCEPT !.parse = state]

\* _next
NextFrame(p) ==
    Transition([p EXCEPT !.frame = NewFrame, !.length = -1, !.read = 0,
                         !.stream = <<>>], "heart-beat")

\* _parseCommand
ParseCommand(p, character) ==
    IF character # LINE_DELIMITER
    THEN [p EXCEPT !.buffer = Append(@, character)]
    ELSE LET command == p.buffer IN
         IF command = <<>> THEN p
         ELSE IF command \notin COMMANDS(p.version)
         THEN [Flush(p) EXCEPT !.err = "StompFrameError"]
         ELSE Transition([p EXCEPT !.frame.command = command], "headers")

\* a _parseHeartBeat that queues a heart-beat whatever the version
ParseHeartBeatAlways(p, character) ==
    IF character # LINE_DELIMITER
    THEN ParseCommand(Transition(p, "command"), character)
    ELSE [p EXCEPT !.frames = Append(@, HeartBeat)]

\* _parseHeartBeat
ParseHeartBeat(p, character) ==
    IF character # LINE_DELIMITER
    THEN ParseCommand(Transition(p, "command"), character)
    ELSE IF p.version # VERSION_1_0
         THEN [p EXCEPT !.frames = Append(@, HeartBeat)]
         ELSE p

\* self._frame.headers[name] = value
SetHeader(headers, name, value) == (name :> value) @@ headers

\* _parseHeader
ParseHeader(p, character) ==
    IF character # LINE_DELIMITER
    THEN [p EXCEPT !.buffer = Append(@, character)]
    ELSE LET header == p.buffer IN
         IF header # <<>>
         THEN LET i == Index(header, HEADER_SEPARATOR) IN
              IF i = 0
              THEN [p EXCEPT !.err = "StompFrameError"]
              ELSE LET name == SubSeq(header, 1, i - 1)
                       value == SubSeq(header, i + 1, Len(header))
                   IN Transition([p EXCEPT !.frame.headers = SetHeader(@, name, value)],
                                 "headers")
         ELSE IF CONTENT_LENGTH_HEADER \in DOMAIN p.frame.headers
              THEN LET text == p.frame.headers[CONTENT_LENGTH_HEADER] IN
                   IF IntOk(text)
                   THEN Transition([p EXCEPT !.length = ToInt(text)], "body")
                   ELSE [p EXCEPT !.err = "ValueError"]
              ELSE Transition([p EXCEPT !.length = -1], "body")

\* a body test that ignores content-length
InBodyNoLength(n, len, character) == character # FRAME_DELIMITER

\* a body test that ends the body one character early
InBodyShort(n, len, character) == (n < len) \/ (character # FRAME_DELIMITER)

\* the test of _parseBody that keeps a character in the body
InBody(n, len, character) == (n <= len) \/ (character # FRAME_DELIMITER)

\* _parseBody
ParseBody(p, character) ==
    LET q == [p EXCEPT !.read = @ + 1, !.stream = Append(@, character)] IN
    IF InBody(q.read, q.length, character)
    THEN [q EXCEPT !.buffer = Append(@, character)]
    ELSE LET f == [q.frame EXCEPT !.body = q.buffer] IN
         NextFrame([q EXCEPT !.frames = Append(@, f),
                             !.emitted = Append(@, [frame |-> f, length |-> q.length,
                                                    stream |-> q.stream])])

\* self.parse(character)
Parse(p, character) ==
    CASE p.parse = "heart-beat" -> ParseHeartBeat(p, character)
      [] p.parse = "command" -> ParseCommand(p, character)
      [] p.parse = "headers" -> ParseHeader(p, character)
      [] p.parse = "body" -> ParseBody(p, character)

\* add: the loop over the characters of data, left by the first exception
RECURSIVE AddData(_, _)
AddData(p, data) ==
    IF data = <<>> THEN p
    ELSE LET q == Parse(p, Head(data)) IN
         IF q.err # "none" THEN q ELSE AddData(q, Tail(data))

Parser == [version |-> version, parse |-> parse, buffer |-> buffer, frame |-> frame,
           length |-> length, read |-> read, frames |-> frames,
           stream |-> stream, emitted |-> emitted, err |-> "none"]

-----------------------------------------------------------------------------
(* The byte streams fed to the parser *)

MaxPieces == 2   \* the number of pieces a byte stream is made of
MaxChunk == 3    \* the largest number of characters passed to one add call

\* a header line
Line(name, value) == [name |-> name, value |-> value]

FramePiece(command, lines, body) ==
    [kind |-> "frame", command |-> command, lines |-> lines, body |-> body]

RawPiece(chars) == [kind |-> "raw", chars |-> chars]

FramePieces ==
    { FramePiece(NACK, <<>>, <<>>),
      FramePiece(STOMP, <<>>, <<>>),
      FramePiece(ACK, <<Line(<<"a">>, <<"b", ":">>), Line(<<"b">>, <<>>)>>,
                 <<"x", LINE_DELIMITER>>),
      FramePiece(SEND, <<Line(CONTENT_LENGTH_HEADER, <<"2">>)>>, <<"x", FRAME_DELIMITER>>),
      \* the same header name on two lines
      FramePiece(ACK, <<Line(<<"a">>, <<"1">>), Line(<<"a">>, <<"2">>)>>, <<>>),
      \* more bytes than content-length before the frame delimiter
      FramePiece(SEND, <<Line(CONTENT_LENGTH_HEADER, <<"1">>)>>, <<FRAME_DELIMITER, "y">>) }

RawPieces ==
    { RawPiece(<<LINE_DELIMITER>>),
      \* a command of no version
      RawPiece(<<"X", LINE_DELIMITER>>),
      \* a header line without separator
      RawPiece(<<"A", "C", "K", LINE_DELIMITER, "b", LINE_DELIMITER>>) }

Pieces == FramePieces \cup RawPieces

Inputs == UNION { [1..n -> Pieces] : n \in 0..MaxPieces }

RECURSIVE SerialiseLines(_)
SerialiseLines(lines) ==
    IF lines = <<>> THEN <<>>
    ELSE Head(lines).name \o <<HEADER_SEPARATOR>> \o Head(lines).value
         \o <<LINE_DELIMITER>> \o SerialiseLines(Tail(lines))

\* the wire format: command line, header lines, empty line, body, frame delimiter
Serialise(f) ==
    f.command \o <<LINE_DELIMITER>> \o SerialiseLines(f.lines) \o <<LINE_DELIMITER>>
    \o f.body \o <<FRAME_DELIMITER>>

Bytes(piece) == IF piece.kind = "frame" THEN Serialise(piece) ELSE piece.chars

RECURSIVE Flatten(_)
Flatten(pieces) ==
    IF pieces = <<>> THEN <<>> ELSE Bytes(Head(pieces)) \o Flatten(Tail(pieces))

-----------------------------------------------------------------------------
(* The parser's operations *)

\* StompParser(version): __init__ and reset
ParserNew ==
    /\ parse = "heart-beat"
    /\ buffer = <<>>
    /\ frame = NewFrame
    /\ length = -1
    /\ read = 0
    /\ frames = <<>>
    /\ raised = "none"
    /\ got = <<>>
    /\ method = "none"
    /\ returned = None
    /\ stream = <<>>
    /\ emitted = <<>>

\* a parser of either version and a byte stream to feed it
ParserInit ==
    /\ version \in VERSIONS
    /\ ParserNew
    /\ input \in Inputs
    /\ wire = Flatten(input)

\* a parser that is fed nothing
ParserIdle ==
    /\ version = DEFAULT_VERSION
    /\ ParserNew
    /\ input = <<>>
    /\ wire = <<>>

\* add(data), data the next k characters of the stream
Add(k) ==
    /\ k <= Len(wire)
    /\ LET p == AddData(Parser, SubSeq(wire, 1, k)) IN
       /\ parse' = p.parse
       /\ buffer' = p.buffer
       /\ frame' = p.frame
       /\ length' = p.length
       /\ read' = p.read
       /\ frames' = p.frames
       /\ stream' = p.stream
       /\ emitted' = p.emitted
       /\ raised' = p.err
    /\ wire' = SubSeq(wire, k + 1, Len(wire))
    /\ method' = "add"
    /\ UNCHANGED <<version, input, got, returned>>
    /\ UNCHANGED <<clientVars, commandVars, producerVars>>

\* canRead
canRead == frames # <<>>

\* a get that takes the frame queued last
GetLast ==
    /\ IF canRead
       THEN /\ returned' = frames[Len(frames)]
            /\ got' = Append(got, frames[Len(frames)])
            /\ frames' = SubSeq(frames, 1, Len(frames) - 1)
       ELSE returned' = None /\ UNCHANGED <<got, frames>>
    /\ method' = "get"
    /\ UNCHANGED <<version, parse, buffer, frame, length, read, input, wire, raised,
                   stream, emitted>>
    /\ UNCHANGED <<clientVars, commandVars, producerVars>>

\* get
Get ==
    /\ IF canRead
       THEN /\ returned' = Head(frames)
            /\ got' = Append(got, Head(frames))
            /\ frames' = Tail(frames)
       ELSE returned' = None /\ UNCHANGED <<got, frames>>
    /\ method' = "get"
    /\ UNCHANGED <<version, parse, buffer, frame, length, read, input, wire, raised,
                   stream, emitted>>
    /\ UNCHANGED <<clientVars, commandVars, producerVars>>

\* reset
Reset ==
    /\ LET p == NextFrame([Parser EXCEPT !.frames = <<>>]) IN
       /\ parse' = p.parse
       /\ buffer' = p.buffer
       /\ frame' = p.frame
       /\ length' = p.length
       /\ read' = p.read
       /\ frames' = p.frames
       /\ stream' = p.stream
       /\ emitted' = p.emitted
    /\ method' = "reset"
    /\ UNCHANGED <<version, input, wire, raised, got, returned>>
    /\ UNCHANGED <<clientVars, commandVars, producerVars>>

ParserNext ==
    \/ \E k \in 1..MaxChunk : Add(k)
    \/ Get

\* the parser and a caller that resets it, too
ResetNext ==
    \/ \E k \in 1..MaxChunk : Add(k)
    \/ Get
    \/ Reset

-----------------------------------------------------------------------------
(* Properties of the parser *)

Chars(piece) ==
    {piece.command[i] : i \in DOMAIN piece.command}
    \cup UNION {{l.name[i] : i \in DOMAIN l.name} \cup {l.value[i] : i \in DOMAIN l.value}
                : l \in {piece.lines[j] : j \in DOMAIN piece.lines}}

Names(lines) == {lines[i].name : i \in DOMAIN lines}

\* a frame the wire format can carry: a command of the version, one line per header
\* name, no delimiter inside a line, no separator inside a name, and a content-length
\* that is the length of the body, present when the body holds a frame delimiter
Valid(piece, v) ==
    /\ piece.kind = "frame"
    /\ piece.command \in COMMANDS(v)
    /\ \A i, j \in DOMAIN piece.lines : piece.lines[i].name = piece.lines[j].name => i = j
    /\ \A i \in DOMAIN piece.lines :
          /\ \A k \in DOMAIN piece.lines[i].name :
                piece.lines[i].name[k] \notin {LINE_DELIMITER, HEADER_SEPARATOR}
          /\ \A k \in DOMAIN piece.lines[i].value :
                piece.lines[i].value[k] # LINE_DELIMITER
    /\ \A i \in DOMAIN piece.lines :
          piece.lines[i].name = CONTENT_LENGTH_HEADER
             => IntOk(piece.lines[i].value) /\ ToInt(piece.lines[i].value) = Len(piece.body)
    /\ (\E k \in DOMAIN piece.body : piece.body[k] = FRAME_DELIMITER)
          => CONTENT_LENGTH_HEADER \in Names(piece.lines)

\* the value of the first line named n
FirstValue(lines, n) ==
    LET i == CHOOSE i \in DOMAIN lines :
                /\ lines[i].name = n
                /\ \A j \in DOMAIN lines : lines[j].name = n => i <= j
    IN lines[i].value

\* the frame a piece stands for
Expected(piece) ==
    [command |-> piece.command,
     headers |-> [n \in Names(piece.lines) |-> FirstValue(piece.lines, n)],
     body |-> piece.body]

AllValid == \A i \in DOMAIN input : Valid(input[i], version)

\* C1: a stream of serialised valid frames F1..Fn, fed in any partition into chunks,
\* makes the successive get calls return exactly F1..Fn in order (same command,
\* headers and body) and nothing else, and no add call raises.
ParserCompleteness ==
    AllValid =>
        LET out == got \o frames IN
        /\ raised = "none"
        /\ Len(out) <= Len(input)
        /\ \A i \in DOMAIN out : out[i] = Expected(input[i])
        /\ wire = <<>> => Len(out) = Len(input)

\* two valid frames, one with a frame delimiter in its body, were fed and returned
ParserCompletenessWitness ==
    /\ AllValid
    /\ Len(input) = 2
    /\ wire = <<>>
    /\ got = <<Expected(input[1]), Expected(input[2])>>
    /\ \E i \in DOMAIN input : \E k \in DOMAIN input[i].body :
          input[i].body[k] = FRAME_DELIMITER
    /\ \E i \in DOMAIN input : input[i].lines # <<>>

\* every piece is a frame with a command of the version: frame i is piece i
AllFrames ==
    \A i \in DOMAIN input :
        input[i].kind = "frame" /\ input[i].command \in COMMANDS(version)

\* C2: a header name that is on several header lines of a received frame maps to
\* the value of its FIRST line in the parsed frame.
FirstOccurrenceWins ==
    AllFrames =>
        \A i \in DOMAIN emitted :
            \A n \in DOMAIN emitted[i].frame.headers :
                emitted[i].frame.headers[n] = FirstValue(input[i].lines, n)

\* C3 as stated: with content-length N >= 0 the body of the emitted frame is exactly
\* the first N bytes that follow the headers, whatever bytes follow.
ContentLengthExact ==
    \A i \in DOMAIN emitted :
        emitted[i].length >= 0
           => emitted[i].frame.body = SubSeq(emitted[i].stream, 1, emitted[i].length)

\* C3, amended: with content-length N >= 0 the first N bytes after the headers are
\* appended unconditionally (frame delimiters included); the frame ends at the first
\* frame delimiter after them and its body is every byte before that delimiter, so
\* it is exactly the N bytes when the delimiter follows them directly.
ContentLengthBody ==
    \A i \in DOMAIN emitted :
        LET e == emitted[i]
            n == Len(e.stream) IN
        e.length >= 0 =>
            /\ CONTENT_LENGTH_HEADER \in DOMAIN e.frame.headers
            /\ e.length = ToInt(e.frame.headers[CONTENT_LENGTH_HEADER])
            /\ n > e.length
            /\ e.stream[n] = FRAME_DELIMITER
            /\ \A k \in (e.length + 1)..(n - 1) : e.stream[k] # FRAME_DELIMITER
            /\ e.frame.body = SubSeq(e.stream, 1, n - 1)
            /\ (e.stream[e.length + 1] = FRAME_DELIMITER => Len(e.frame.body) = e.length)

\* a frame with content-length 2 whose second body byte is a frame delimiter was
\* emitted with a body of those two bytes
ContentLengthBodyWitness ==
    \E i \in DOMAIN emitted :
        /\ emitted[i].length = 2
        /\ emitted[i].frame.body = <<"x", FRAME_DELIMITER>>
        /\ emitted[i].stream = <<"x", FRAME_DELIMITER, FRAME_DELIMITER>>

\* the commands the queued and the returned frames carry
QueuedCommands ==
    {frames[i].command : i \in {j \in DOMAIN frames : IsFrame(frames[j])}}
    \cup {got[i].command : i \in {j \in DOMAIN got : IsFrame(got[j])}}

\* C15: the end of a command line that is not a command of the parser's version,
\* client or server, raises StompFrameError, leaves the queue as it is and the
\* parser waiting for a command; the end of one that is makes it the command of
\* the frame being built. NACK and STOMP are commands of 1.1 only, and no frame
\* that is queued or returned carries a command its version does not have.
CommandOfVersion ==
    LET known == CLIENT_COMMANDS(version) \cup SERVER_COMMANDS(version)
        q == ParseCommand(Parser, LINE_DELIMITER)
    IN /\ (parse = "command" /\ buffer # <<>>) =>
            IF buffer \in known
            THEN q.err = "none" /\ q.parse = "headers" /\ q.frame.command = buffer
            ELSE /\ q.err = "StompFrameError" /\ q.frames = frames
                 /\ q.parse = "command" /\ q.buffer = <<>>
       /\ {NACK, STOMP} \cap known = IF version = VERSION_1_0 THEN {} ELSE {NACK, STOMP}
       /\ QueuedCommands \subseteq known

\* a 1.0 parser was fed a NACK frame: the last add call raised, and nothing is or
\* was queued
CommandOfVersionWitness ==
    /\ version = VERSION_1_0 /\ Len(input) = 1
    /\ input[1].kind = "frame" /\ input[1].command = NACK
    /\ raised = "StompFrameError" /\ frames = <<>> /\ got = <<>>

\* C16: between frames, a LINE_DELIMITER makes a 1.1 parser queue exactly one
\* heart-beat and a 1.0 parser queue nothing; either parser stays between frames,
\* with an empty frame and an empty buffer, and raises nothing
HeartBeatToken ==
    parse = "heart-beat" =>
        LET q == Parse(Parser, LINE_DELIMITER)
        IN /\ q.frames = IF version = VERSION_1_0 THEN frames
                          ELSE Append(frames, HeartBeat)
           /\ q.parse = "heart-beat" /\ q.err = "none"
           /\ q.frame = NewFrame /\ q.buffer = <<>>

\* a 1.1 parser was fed two line delimiters and holds two heart-beats, between
\* frames
HeartBeatTokenWitness ==
    /\ version = VERSION_1_1 /\ Len(input) = 2
    /\ \A i \in 1..2 : input[i].kind = "raw" /\ input[i].chars = <<LINE_DELIMITER>>
    /\ wire = <<>> /\ frames = <<HeartBeat, HeartBeat>> /\ parse = "heart-beat"

\* C17: add appends to the queue, also when it raises; get returns the head of
\* the queue and removes it, and returns None and changes nothing when the queue
\* is empty; canRead tells whether the queue is non-empty; reset empties the queue
\* and puts the parser between frames with an empty frame and buffer
QueueDiscipline ==
    [][/\ method' = "add" =>
            /\ Len(frames') >= Len(frames)
            /\ SubSeq(frames', 1, Len(frames)) = frames
       /\ method' = "get" =>
            /\ IF Len(frames) > 0
               THEN returned' = frames[1] /\ frames' = Tail(frames)
               ELSE returned' = None /\ frames' = frames
            /\ UNCHANGED <<parse, buffer, frame, length, read>>
       /\ method' = "reset" =>
            /\ frames' = <<>> /\ parse' = "heart-beat" /\ buffer' = <<>>
            /\ frame' = NewFrame /\ length' = -1 /\ read' = 0
       /\ canRead' <=> Len(frames') > 0]_vars

\* the last add call raised with a frame queued, and the only get call that
\* found something, made after it, returned that frame
QueueDisciplineWitness ==
    /\ method = "get" /\ raised = "StompFrameError"
    /\ IsFrame(returned) /\ got = <<returned>> /\ frames = <<>>

-----------------------------------------------------------------------------
(* The asynchronous client: values *)

MaxSent == 3       \* the frames the caller and the broker make the client write
                   \* on one connection
MaxCalls == 4      \* the calls the caller makes in one behaviour

Receipts == {"r1", "r2"}    \* the receipt ids the caller uses: r1 for a subscription,
                            \* r2 for send and disconnect
MaxTime == 7                \* the ticks the clock runs for
HeartBeatPeriod == 250      \* the heart-beat period the broker agrees to, in ms
MsgIds == {"m1"}            \* the message-ids of the broker, one per message in flight
Transactions == {"t1"}      \* the transaction ids the caller uses

\* StompSession.DISCONNECTED, CONNECTING, CONNECTED, DISCONNECTING
S_DISCONNECTED == "disconnected"
S_CONNECTING == "connecting"
S_CONNECTED == "connected"
S_DISCONNECTING == "disconnecting"

\* the thresholds, in tenths
DEFAULT_HEART_BEAT_THRESHOLDS == [client |-> 8, server |-> 20]

\* self._heartBeats without a timer
NoTimer == -1
NoTimers == [client |-> NoTimer, server |-> NoTimer]

DEFAULT_ACK_MODE == "client-individual"
CLIENT_ACK_MODES == {"client", "client-individual"}

\* the exceptions of the client
AlreadyRunning == "StompAlreadyRunningError"
NotConnected == "StompConnectionError: Not connected"
AlreadyConnected == "StompConnectionError: Already connected"
EndpointFailed == "StompConnectionError: Endpoint connect failed"
UnexpectedLoss == "StompConnectionError: Unexpected connection loss"
CouldNotSend == "StompConnectionError: Could not send DISCONNECT"
ServerSilent == "StompConnectionError: Server heart-beat timeout"
BrokerSilent == "StompCancelledError: STOMP broker did not answer on time"
HandlersLate == "StompCancelledError: Handlers did not finish in time."
DisconnectReceiptLate ==
    "StompCancelledError: Receipt for disconnect command did not arrive on time."
ReceiptLate == "StompCancelledError: Receipt did not arrive on time"
ConnectionLost == "StompCancelledError: In-flight operation cancelled (connection lost)"
GoingDown == "StompCancelledError: Going down to disconnect now"
ErrorWhileConnecting == "StompProtocolError: While trying to connect, received ERROR"
ErrorReceived == "StompProtocolError: Received ERROR"
ProtocolError == "StompProtocolError"
UnknownCommand == "StompFrameError: Unknown STOMP command"
KeyError == "KeyError"
CallerFailure == "the failure passed to disconnect"
HookFailure == "the exception of onMessageFailed"

\* the subscribe calls of the caller: destination, headers, receipt, ack and the
\* handler context
Headers(id, ack) ==
    IF ack = "none" THEN [h \in {"id"} |-> id]
    ELSE [h \in {"id", "ack"} |-> IF h = "id" THEN id ELSE ack]

SubscribeCalls ==
    { [destination |-> "/a", headers |-> Headers("1", "none"), receipt |-> "none",
       ack |-> TRUE, handler |-> "h1", errorDestination |-> "/err",
       onMessageFailed |-> "none"],
      [destination |-> "/b", headers |-> Headers("2", "none"), receipt |-> "r1",
       ack |-> FALSE, handler |-> "h2", errorDestination |-> "none",
       onMessageFailed |-> "custom"],
      [destination |-> "/c", headers |-> Headers("3", "none"), receipt |-> "none",
       ack |-> TRUE, handler |-> "h3", errorDestination |-> "none",
       onMessageFailed |-> "custom"] }

\* the subscription token: (destination, id) for 1.0, the id for 1.1
Token(v, destination, id) == IF v = VERSION_1_0 THEN <<destination, id>> ELSE id

\* the frames the client writes
Frame(command, headers) == [command |-> command, headers |-> headers]

WithReceipt(headers, receipt) ==
    IF receipt = "none" THEN headers ELSE ("receipt" :> receipt) @@ headers

ConnectFrame == Frame(CONNECT, NoHeaders)
DisconnectFrame(receipt) == Frame(DISCONNECT, WithReceipt(NoHeaders, receipt))
SendFrameTo(destination, receipt) ==
    Frame(SEND, WithReceipt("destination" :> destination, receipt))
AckFrame(m) == Frame(ACK, "message-id" :> m)
NackFrame(m) == Frame(NACK, "message-id" :> m)
UnsubscribeFrame(entry) ==
    Frame(UNSUBSCRIBE, "destination" :> entry.destination @@ "id" :> entry.headers["id"])

\* commands.subscribe: the caller's headers, the destination and the receipt
SubscribeFrame(destination, headers, receipt) ==
    Frame(SUBSCRIBE, WithReceipt(("destination" :> destination) @@ headers, receipt))

\* frame.headers.setdefault(ACK_HEADER, DEFAULT_ACK_MODE)
SetDefault(headers, name, value) == headers @@ (name :> value)

\* the frames the broker sends
InboundFrames ==
    {[command |-> CONNECTED, beats |-> <<0, 0>>], [command |-> SEND]}
    \cup {[command |-> RECEIPT, id |-> r] : r \in Receipts}
    \cup {[command |-> ERROR, message |-> m]
            : m \in {"Unexpected ACK received for message-id", "other"}}
    \cup {[command |-> MESSAGE, id |-> m, destination |-> c.destination,
           subscription |-> c.headers["id"]] : m \in MsgIds, c \in SubscribeCalls}

Remove(f, k) == [x \in DOMAIN f \ {k} |-> f[x]]

-----------------------------------------------------------------------------
(* The asynchronous client as a value: the fields of the client, its session *)
(* and its coroutines, and the exception the running call raised.           *)

Client ==
    [sversion |-> sversion, state |-> sessionState, sessionSubs |-> sessionSubs,
     sessionReceipts |-> sessionReceipts,
     sessionTransactions |-> sessionTransactions,
     clientHeartBeat |-> clientHeartBeat, serverHeartBeat |-> serverHeartBeat,
     lastSent |-> lastSent, lastReceived |-> lastReceived,
     heartBeats |-> heartBeats, protocol |-> protocol,
     connecting |-> connecting, disconnecting |-> disconnecting,
     disconnectReason |-> disconnectReason, disconnected |-> disconnected,
     messages |-> messages, receipts |-> receipts, subscriptions |-> subscriptions,
     connectPc |-> connectPc, discPc |-> discPc, discReceipt |-> discReceipt,
     drain |-> drain, drainOn |-> drainOn, loseRequested |-> loseRequested,
     sent |-> sent, connectResult |-> connectResult, results |-> results,
     outcomes |-> outcomes, flushed |-> flushed, lostSubs |-> lostSubs,
     causes |-> causes, nconn |-> nconn, ncalls |-> ncalls, raised |-> "none"]

Raise(c, e) == [c EXCEPT !.raised = e]

\* a setter that lets the latest reason win
SetDisconnectReasonLatest(c, reason) ==
    IF reason # "none"
    THEN [c EXCEPT !.disconnectReason = reason, !.causes = Append(@, reason)]
    ELSE [c EXCEPT !.disconnectReason = "none"]

\* the setter of _disconnectReason: an existing reason wins
SetDisconnectReason(c, reason) ==
    IF reason # "none"
    THEN [c EXCEPT !.disconnectReason = IF @ # "none" THEN @ ELSE reason,
                   !.causes = Append(@, reason)]
    ELSE [c EXCEPT !.disconnectReason = "none"]

\* sendFrame: the _protocol property raises without a transport
SendFrame(c, f) ==
    IF c.protocol = "none" THEN Raise(c, NotConnected)
    ELSE [c EXCEPT !.sent = Append(@, f), !.lastSent = now]

\* a _disconnect that leaves the transport open
LoseConnectionNever(c) == c

\* protocol.loseConnection() on the transport _disconnect started with, which is
\* gone once the connection is lost
LoseConnection(c) ==
    IF c.protocol = "open" THEN [c EXCEPT !.loseRequested = TRUE] ELSE c

\* session: a frame with a receipt header makes the receipt id pending
Pending(c, receipt) ==
    IF receipt = "none" THEN c ELSE [c EXCEPT !.sessionReceipts = @ \cup {receipt}]

\* _waitForReceipt up to its yield: the waiter of the operation op is registered
WaitForReceipt(c, receipt, op) ==
    IF receipt = "none" THEN c
    ELSE [c EXCEPT !.receipts = (receipt :> op) @@ @,
                   !.results = IF op = "disconnect" THEN @
                               ELSE [@ EXCEPT ![receipt] = "pending"]]

\* _disconnect from the test of the session state on
DisconnectTail(c, receipt) ==
    IF c.state = S_CONNECTED
    THEN LET c1 == Pending([c EXCEPT !.state = S_DISCONNECTING], receipt)
             c2 == IF c1.protocol = "open"
                   THEN SendFrame(c1, DisconnectFrame(receipt))
                   ELSE SetDisconnectReason(c1, CouldNotSend)
         IN IF receipt = "none"
            THEN LoseConnection([c2 EXCEPT !.discPc = "idle"])
            ELSE WaitForReceipt([c2 EXCEPT !.discPc = "receipt"], receipt, "disconnect")
    ELSE LoseConnection([c EXCEPT !.discPc = "idle"])

\* one tick of the cooperative task of _disconnect, which visits the marker m: a
\* marker that has fired lets the task go on at its next tick, one that has not
\* pauses it; without a marker left, _disconnect resumes
DrainTick(c, m) ==
    IF c.drain = {} THEN DisconnectTail(c, c.discReceipt)
    ELSE IF m \in DOMAIN c.messages /\ c.messages[m].result = "waiting"
    THEN [c EXCEPT !.discPc = "wait", !.drainOn = m]
    ELSE [c EXCEPT !.drain = @ \ {m}]

\* disconnect after the test of _disconnecting, and _disconnect up to its first yield
DisconnectBody(c, receipt, failure) ==
    LET c1 == [c EXCEPT !.disconnecting = TRUE, !.discReceipt = receipt]
        c2 == IF failure # "none" THEN SetDisconnectReason(c1, failure) ELSE c1
    IN IF DOMAIN c2.messages # {}
       THEN [c2 EXCEPT !.discPc = "tick", !.drain = DOMAIN c2.messages]
       ELSE DisconnectTail(c2, receipt)

\* a disconnect that tests neither the transport nor _disconnecting
DisconnectUnguarded(c, receipt, failure) == DisconnectBody(c, receipt, failure)

\* disconnect
Disconnect(c, receipt, failure) ==
    IF c.protocol = "none" THEN Raise(c, NotConnected)
    ELSE IF c.disconnecting THEN Raise(c, AlreadyRunning)
    ELSE DisconnectBody(c, receipt, failure)

\* a _beatRemaining that forgets the time gone by since the last frame
BeatRemainingFull(c, which) ==
    LET heartBeat == IF which = "client" THEN c.clientHeartBeat ELSE c.serverHeartBeat
    IN IF heartBeat = 0 THEN -1
       ELSE (DEFAULT_HEART_BEAT_THRESHOLDS[which] * heartBeat) \div 1000

\* _beatRemaining, in ticks: a period of h ms and a threshold of t tenths make
\* t * h / 1000 ticks
BeatRemaining(c, which) ==
    LET heartBeat == IF which = "client" THEN c.clientHeartBeat ELSE c.serverHeartBeat
        last == IF which = "client" THEN c.lastSent ELSE c.lastReceived
        left == (DEFAULT_HEART_BEAT_THRESHOLDS[which] * heartBeat) \div 1000
                    - (now - last)
    IN IF heartBeat = 0 THEN -1 ELSE IF left > 0 THEN left ELSE 0

\* a _beat that lets the silence of the broker pass
BeatLenient(c, which) ==
    LET c0 == [c EXCEPT !.heartBeats[which] = NoTimer]
        remaining == BeatRemaining(c0, which)
    IN IF remaining < 0 THEN c0
       ELSE IF remaining = 0
       THEN IF which = "client"
            THEN LET c1 == SendFrame(c0, HeartBeat)
                 IN IF c1.raised # "none" THEN c1
                    ELSE [c1 EXCEPT !.heartBeats[which] = now + BeatRemaining(c1, which)]
            ELSE c0
       ELSE [c0 EXCEPT !.heartBeats[which] = now + remaining]

\* _beat
Beat(c, which) ==
    LET c0 == [c EXCEPT !.heartBeats[which] = NoTimer]
        remaining == BeatRemaining(c0, which)
    IN IF remaining < 0 THEN c0
       ELSE IF remaining = 0
       THEN IF which = "client"
            THEN LET c1 == SendFrame(c0, HeartBeat)
                 IN IF c1.raised # "none" THEN c1
                    ELSE [c1 EXCEPT !.heartBeats[which] = now + BeatRemaining(c1, which)]
            ELSE Disconnect(c0, "none", ServerSilent)
       ELSE [c0 EXCEPT !.heartBeats[which] = now + remaining]

\* _beats
Beats(c) ==
    LET c1 == Beat(c, "client")
    IN IF c1.raised # "none" THEN c1 ELSE Beat(c1, "server")

\* a continuation that closes the transport when the receipt of an operation is
\* late
ResumeReceiptFatal(c, r, how) ==
    LET c1 == [c EXCEPT !.receipts = Remove(@, r)]
    IN IF how = "ok" THEN [c1 EXCEPT !.results[r] = how]
       ELSE LoseConnection([c1 EXCEPT !.results[r] = how])

\* the continuation of the operation that waits for receipt r, when its waiter is
\* called back ("ok") or fails (how is the failure)
ResumeReceipt(c, r, how) ==
    LET op == c.receipts[r]
        c1 == [c EXCEPT !.receipts = Remove(@, r)]
    IN IF op = "disconnect"
       THEN LET c2 == IF how # "ok" THEN SetDisconnectReason(c1, DisconnectReceiptLate)
                      ELSE c1
            IN LoseConnection([c2 EXCEPT !.discPc = "idle"])
       ELSE [c1 EXCEPT !.results[r] = how]

\* a send that does not ask the session for its state
SendUnchecked(c, destination, receipt) ==
    IF c.protocol = "none" THEN Raise(c, NotConnected)
    ELSE WaitForReceipt(SendFrame(Pending(c, receipt), SendFrameTo(destination, receipt)),
                        receipt, "send")

\* send: the session's send, sendFrame, _waitForReceipt
Send(c, destination, receipt) ==
    IF c.protocol = "none" THEN Raise(c, NotConnected)
    ELSE IF c.state # S_CONNECTED THEN Raise(c, ProtocolError)
    ELSE WaitForReceipt(SendFrame(Pending(c, receipt), SendFrameTo(destination, receipt)),
                        receipt, "send")

\* ack: the session's ack, sendFrame
Ack(c, m) ==
    IF c.protocol = "none" THEN Raise(c, NotConnected)
    ELSE IF c.state # S_CONNECTED THEN Raise(c, ProtocolError)
    ELSE SendFrame(c, AckFrame(m))

\* nack: the session's nack (there is no NACK in 1.0), sendFrame
Nack(c, m) ==
    IF c.protocol = "none" THEN Raise(c, NotConnected)
    ELSE IF c.state # S_CONNECTED \/ c.sversion = VERSION_1_0 THEN Raise(c, ProtocolError)
    ELSE SendFrame(c, NackFrame(m))

\* begin: the session's begin (the transaction becomes active), sendFrame
Begin(c, transaction) ==
    IF c.protocol = "none" THEN Raise(c, NotConnected)
    ELSE IF c.state # S_CONNECTED \/ transaction \in c.sessionTransactions
         THEN Raise(c, ProtocolError)
    ELSE SendFrame([c EXCEPT !.sessionTransactions = @ \cup {transaction}],
                   Frame(BEGIN, "transaction" :> transaction))

\* abort: the session's abort (the transaction is no longer active), sendFrame
Abort(c, transaction) ==
    IF c.protocol = "none" THEN Raise(c, NotConnected)
    ELSE IF c.state # S_CONNECTED \/ transaction \notin c.sessionTransactions
         THEN Raise(c, ProtocolError)
    ELSE SendFrame([c EXCEPT !.sessionTransactions = @ \ {transaction}],
                   Frame(ABORT, "transaction" :> transaction))

\* commit: the session's commit (the transaction is no longer active), sendFrame
Commit(c, transaction) ==
    IF c.protocol = "none" THEN Raise(c, NotConnected)
    ELSE IF c.state # S_CONNECTED \/ transaction \notin c.sessionTransactions
         THEN Raise(c, ProtocolError)
    ELSE SendFrame([c EXCEPT !.sessionTransactions = @ \ {transaction}],
                   Frame(COMMIT, "transaction" :> transaction))

Tokens(c) == {c.sessionSubs[i].token : i \in DOMAIN c.sessionSubs}

\* subscribe: the session's subscribe, the client's subscription, sendFrame,
\* _waitForReceipt
Subscribe(c, call) ==
    LET token == Token(c.sversion, call.destination, call.headers["id"])
        frame0 == SubscribeFrame(call.destination, call.headers, call.receipt)
        headers == IF call.ack
                   THEN SetDefault(frame0.headers, "ack", DEFAULT_ACK_MODE)
                   ELSE frame0.headers
        ack == call.ack /\ headers["ack"] \in CLIENT_ACK_MODES
        entry == [token |-> token, destination |-> call.destination,
                  headers |-> call.headers, receipt |-> call.receipt,
                  context |-> [handler |-> call.handler,
                               errorDestination |-> call.errorDestination,
                               onMessageFailed |-> call.onMessageFailed]]
        subscription == [destination |-> call.destination, handler |-> call.handler,
                         ack |-> ack, errorDestination |-> call.errorDestination,
                         onMessageFailed |-> call.onMessageFailed]
    IN IF c.protocol = "none" THEN Raise(c, NotConnected)
       ELSE IF c.state # S_CONNECTED \/ token \in Tokens(c) THEN Raise(c, ProtocolError)
       ELSE LET c1 == Pending([c EXCEPT !.sessionSubs = Append(@, entry)], call.receipt)
                c2 == [c1 EXCEPT !.subscriptions = (token :> subscription) @@ @]
            IN WaitForReceipt(SendFrame(c2, Frame(SUBSCRIBE, headers)),
                              call.receipt, "subscribe")

\* the subscribe call _replay makes for an entry of the session's registry
ReplayCall(entry) ==
    [destination |-> entry.destination, headers |-> entry.headers,
     receipt |-> entry.receipt, ack |-> TRUE, handler |-> entry.context.handler,
     errorDestination |-> entry.context.errorDestination,
     onMessageFailed |-> entry.context.onMessageFailed]

RECURSIVE ReplayEntries(_, _)
ReplayEntries(c, entries) ==
    IF entries = <<>> THEN c
    ELSE ReplayEntries([Subscribe(c, ReplayCall(Head(entries))) EXCEPT !.raised = "none"],
                       Tail(entries))

\* _replay: the session hands out its registry, which the subscribe calls rebuild
Replay(c) == ReplayEntries([c EXCEPT !.sessionSubs = <<>>], c.sessionSubs)

\* unsubscribe: the session's unsubscribe, the client's subscription, sendFrame
Unsubscribe(c, token) ==
    IF c.protocol = "none" THEN Raise(c, NotConnected)
    ELSE IF c.state # S_CONNECTED \/ token \notin Tokens(c) THEN Raise(c, ProtocolError)
    ELSE IF token \notin DOMAIN c.subscriptions THEN Raise(c, KeyError)
    ELSE LET i == CHOOSE i \in DOMAIN c.sessionSubs : c.sessionSubs[i].token = token
             rest == [j \in 1..(Len(c.sessionSubs) - 1) |->
                         IF j < i THEN c.sessionSubs[j] ELSE c.sessionSubs[j + 1]]
         IN SendFrame([c EXCEPT !.sessionSubs = rest,
                                !.subscriptions = Remove(@, token)],
                      UnsubscribeFrame(c.sessionSubs[i]))

\* a connect that fails with e without a disconnect
ConnectFailedQuiet(c, e) ==
    [c EXCEPT !.connecting = FALSE, !.connectPc = "idle", !.connectResult = e]

\* connect after the negotiation waiter failed with e: disconnect(failure=e), and
\* the wait for the disconnected completion
ConnectFailed(c, e) ==
    LET c1 == Disconnect([c EXCEPT !.connecting = FALSE], "none", e)
    IN IF c1.raised # "none"
       THEN [c1 EXCEPT !.connectPc = "idle", !.connectResult = c1.raised, !.raised = "none"]
       ELSE [c1 EXCEPT !.connectPc = "disconnecting"]

\* connect after the negotiation waiter was called back: _replay, returnValue
ConnectDone(c) ==
    [Replay([c EXCEPT !.connecting = FALSE]) EXCEPT !.connectPc = "idle",
                                                     !.connectResult = "ok"]

\* _onConnected
OnConnected(c, f) ==
    IF c.state # S_CONNECTING THEN Raise(c, ProtocolError)
    ELSE LET c1 == [c EXCEPT !.state = S_CONNECTED, !.clientHeartBeat = f.beats[1],
                             !.serverHeartBeat = f.beats[2]]
         IN IF c1.connecting THEN Beats(ConnectDone(c1)) ELSE Raise(c1, KeyError)

\* a receipt handler that calls back the waiter of another receipt
OnReceiptAny(c, r) ==
    IF r \notin c.sessionReceipts THEN Raise(c, ProtocolError)
    ELSE LET c1 == [c EXCEPT !.sessionReceipts = @ \ {r}]
         IN IF DOMAIN c1.receipts # {}
            THEN ResumeReceipt(c1, CHOOSE x \in DOMAIN c1.receipts :
                                      x # r \/ DOMAIN c1.receipts = {r}, "ok")
            ELSE Raise(c1, KeyError)

\* _onReceipt
OnReceipt(c, r) ==
    IF r \notin c.sessionReceipts THEN Raise(c, ProtocolError)
    ELSE LET c1 == [c EXCEPT !.sessionReceipts = @ \ {r}]
         IN IF r \in DOMAIN c1.receipts THEN ResumeReceipt(c1, r, "ok")
            ELSE Raise(c1, KeyError)

\* an _onError without the workaround for the unexpected ACK
OnErrorStrict(c, message) ==
    IF c.connecting THEN ConnectFailed(c, ErrorWhileConnecting)
    ELSE Disconnect(c, "none", ErrorReceived)

\* _onError
OnError(c, message) ==
    IF c.connecting THEN ConnectFailed(c, ErrorWhileConnecting)
    ELSE IF message = "Unexpected ACK received for message-id" THEN c
    ELSE Disconnect(c, "none", ErrorReceived)

\* an _onMessage that hands the message to the handler whether or not the client
\* is disconnecting
OnMessageAlways(c, f) ==
    LET token == Token(c.sversion, f.destination, f.subscription) IN
    IF token \notin Tokens(c) \/ token \notin DOMAIN c.subscriptions THEN c
    ELSE [c EXCEPT !.messages =
              (f.id :> [result |-> "waiting", sub |-> c.subscriptions[token]]) @@ @]

\* _onMessage up to the call of the handler
OnMessage(c, f) ==
    LET token == Token(c.sversion, f.destination, f.subscription) IN
    IF c.disconnecting
    THEN [Nack(c, f.id) EXCEPT !.raised = "none"]
    ELSE IF token \notin Tokens(c) \/ token \notin DOMAIN c.subscriptions THEN c
    ELSE [c EXCEPT !.messages =
              (f.id :> [result |-> "waiting", sub |-> c.subscriptions[token]]) @@ @]

\* the end of the with block of _onMessage: the marker fires, if it has not, and
\* leaves self._messages; the cooperative task paused on it goes on at its next tick
MarkerDone(c, m) ==
    LET c1 == [c EXCEPT !.messages = Remove(@, m)]
    IN IF c1.discPc = "wait" /\ c1.drainOn = m
       THEN [c1 EXCEPT !.discPc = "tick", !.drain = @ \ {m}, !.drainOn = "none"]
       ELSE c1

\* an _onMessage that acks as soon as the handler has failed and again when it
\* leaves
OnHandlerDoneTwice(c, m, outcome) ==
    LET sub == c.messages[m].sub
        acked(x) == IF sub.ack THEN [Ack(x, m) EXCEPT !.raised = "none"] ELSE x
    IN IF c.protocol = "none" THEN MarkerDone(c, m)
       ELSE IF outcome = "ok" THEN MarkerDone(acked(c), m)
       ELSE MarkerDone(acked(acked(c)), m)

\* an _onMessage that disconnects whenever the handler has failed
OnHandlerDonePanics(c, m, outcome) ==
    LET sub == c.messages[m].sub
        acked(x) == IF sub.ack THEN [Ack(x, m) EXCEPT !.raised = "none"] ELSE x
    IN IF c.protocol = "none" THEN MarkerDone(c, m)
       ELSE IF outcome = "ok" THEN MarkerDone(acked(c), m)
       ELSE MarkerDone(acked(IF ~c.disconnecting
                                THEN Disconnect(c, "none", HookFailure) ELSE c), m)

\* _onMessage from the return of the handler on; outcome is "ok", "raised" (the
\* handler raised and the failure hook returned) or "hookRaised" (the handler
\* raised and the custom failure hook raised too). Of the calls it makes, only
\* disconnect raises while there is a transport; without one, every call raises
\* and nothing but the marker changes
OnHandlerDone(c, m, outcome) ==
    LET sub == c.messages[m].sub
        acked(x) == IF sub.ack THEN [Ack(x, m) EXCEPT !.raised = "none"] ELSE x
    IN IF c.protocol = "none" THEN MarkerDone(c, m)
       ELSE IF outcome = "ok" THEN MarkerDone(acked(c), m)
       ELSE LET hooked ==
                    CASE sub.onMessageFailed = "none" ->
                            IF sub.errorDestination # "none"
                            THEN [Send(c, sub.errorDestination, "none")
                                     EXCEPT !.raised = "none"]
                            ELSE c
                      [] outcome = "raised" -> c
                      [] OTHER ->
                            IF ~c.disconnecting
                            THEN Disconnect(c, "none", HookFailure)
                            ELSE c
            IN MarkerDone(acked(hooked), m)

\* _onFrame
OnFrame(c, f) ==
    LET c0 == [c EXCEPT !.lastReceived = now] IN
    CASE ~IsFrame(f) -> c0
      [] f.command = CONNECTED -> OnConnected(c0, f)
      [] f.command = RECEIPT -> OnReceipt(c0, f.id)
      [] f.command = ERROR -> OnError(c0, f.message)
      [] f.command = MESSAGE -> OnMessage(c0, f)
      [] OTHER -> Raise(c0, UnknownCommand)

\* the errbacks of _onConnectionLost on the waiters of self._connecting
CancelConnecting(c) ==
    IF c.connecting THEN ConnectFailed(c, ConnectionLost) ELSE c

\* an errback that reaches no marker
ErrbackNone(c, ms, e) == c

\* errback(e) on the markers of ms that have not fired
Errback(c, ms, e) ==
    [c EXCEPT !.messages = [m \in DOMAIN @ |->
        IF m \in ms /\ @[m].result = "waiting" THEN [@[m] EXCEPT !.result = e] ELSE @[m]]]

\* the cooperative task of _disconnect fails with the marker it is paused on
DrainFailed(c) ==
    DisconnectTail(SetDisconnectReason([c EXCEPT !.drain = {}, !.drainOn = "none"],
                                       HandlersLate),
                   c.discReceipt)

\* ... on the markers of self._messages, and _disconnect when it waits for one
CancelMessages(c) ==
    LET c1 == Errback(c, DOMAIN c.messages, ConnectionLost)
    IN IF c1.discPc = "wait" THEN DrainFailed(c1) ELSE c1

\* ... on the waiters of self._receipts, and the operations that wait for them
RECURSIVE CancelReceipts(_)
CancelReceipts(c) ==
    IF DOMAIN c.receipts = {} THEN c
    ELSE LET r == CHOOSE r \in DOMAIN c.receipts : TRUE
         IN CancelReceipts(ResumeReceipt(c, r, ConnectionLost))

\* session.close(flush)
Close(c, flush) ==
    IF flush
    THEN [c EXCEPT !.state = S_DISCONNECTED, !.clientHeartBeat = 0,
                   !.serverHeartBeat = 0, !.sessionSubs = <<>>,
                   !.sessionTransactions = {}]
    ELSE [c EXCEPT !.state = S_DISCONNECTED, !.clientHeartBeat = 0,
                   !.serverHeartBeat = 0]

\* the disconnected completion of _onConnectionLost, and connect when it waits for it
Resolve(c) ==
    LET outcome == IF c.disconnectReason # "none" THEN c.disconnectReason ELSE "ok"
        c1 == [c EXCEPT !.outcomes = Append(@, outcome), !.disconnected = outcome,
                        !.lostSubs = IF outcome = "ok" THEN <<>> ELSE @]
    IN IF c1.connectPc = "disconnecting"
       THEN [c1 EXCEPT !.connectPc = "idle", !.connectResult = outcome]
       ELSE c1

\* a session.close that flushes when a failure is recorded
FlushesOnFailure(c) == c.disconnectReason # "none"

\* the flush argument of session.close in _onConnectionLost
Flushes(c) == c.disconnectReason = "none"

\* _onConnectionLost
OnConnectionLost(c) ==
    LET c1 == [c EXCEPT !.protocol = "none", !.loseRequested = FALSE,
                        !.lostSubs = c.sessionSubs]
        c2 == IF ~c1.disconnecting THEN SetDisconnectReason(c1, UnexpectedLoss) ELSE c1
        c3 == [Close(c2, Flushes(c2)) EXCEPT !.flushed = Append(@, Flushes(c2))]
        c4 == CancelReceipts(CancelMessages(CancelConnecting(Beats(c3))))
        c5 == Resolve(c4)
    IN [c5 EXCEPT !.disconnecting = FALSE, !.disconnectReason = "none",
                  !.disconnected = "none"]

-----------------------------------------------------------------------------
(* The asynchronous client: the calls of the caller and the callbacks of the *)
(* reactor, each run to its next yield.                                      *)

NoArg == [command |-> <<>>]

\* what is remembered of a step: the exception it raised and the RECEIPT it dispatched
NoEvent == [op |-> "none", arg |-> NoArg, raised |-> "none"]

Event(op, arg, e) ==
    IF e # "none" \/ arg.command = RECEIPT THEN [op |-> op, arg |-> arg, raised |-> e]
    ELSE NoEvent

NoResults == [r \in Receipts |-> "unused"]

\* the client after construction
ClientNew ==
    /\ sessionState = S_DISCONNECTED /\ sessionSubs = <<>> /\ sessionReceipts = {}
    /\ sessionTransactions = {}
    /\ clientHeartBeat = 0 /\ serverHeartBeat = 0 /\ lastSent = 0 /\ lastReceived = 0
    /\ heartBeats = NoTimers /\ now = 0
    /\ protocol = "none" /\ connecting = FALSE /\ disconnecting = FALSE
    /\ disconnectReason = "none" /\ disconnected = "none"
    /\ messages = <<>> /\ receipts = <<>> /\ subscriptions = <<>>
    /\ connectPc = "idle" /\ discPc = "idle" /\ discReceipt = "none"
    /\ drain = {} /\ drainOn = "none"
    /\ loseRequested = FALSE /\ sent = <<>>
    /\ connectResult = "none" /\ results = NoResults
    /\ outcomes = <<>> /\ flushed = <<>> /\ lostSubs = <<>> /\ causes = <<>>
    /\ nconn = 0 /\ ncalls = 0 /\ event = NoEvent

ClientInit == sversion \in VERSIONS /\ ClientNew

\* a client nobody calls
ClientIdle == sversion = DEFAULT_VERSION /\ ClientNew

\* the client becomes c, by the call or callback op
Becomes(c, op, arg) ==
    /\ sversion' = c.sversion /\ sessionState' = c.state /\ sessionSubs' = c.sessionSubs
    /\ sessionReceipts' = c.sessionReceipts /\ protocol' = c.protocol
    /\ sessionTransactions' = c.sessionTransactions
    /\ clientHeartBeat' = c.clientHeartBeat /\ serverHeartBeat' = c.serverHeartBeat
    /\ lastSent' = c.lastSent /\ lastReceived' = c.lastReceived
    /\ heartBeats' = c.heartBeats /\ now' = now
    /\ connecting' = c.connecting /\ disconnecting' = c.disconnecting
    /\ disconnectReason' = c.disconnectReason /\ disconnected' = c.disconnected
    /\ messages' = c.messages /\ receipts' = c.receipts
    /\ subscriptions' = c.subscriptions /\ connectPc' = c.connectPc
    /\ discPc' = c.discPc /\ discReceipt' = c.discReceipt
    /\ drain' = c.drain /\ drainOn' = c.drainOn
    /\ loseRequested' = c.loseRequested /\ sent' = c.sent
    /\ connectResult' = c.connectResult /\ results' = c.results
    /\ outcomes' = c.outcomes /\ flushed' = c.flushed /\ lostSubs' = c.lostSubs
    /\ causes' = c.causes /\ nconn' = c.nconn /\ ncalls' = c.ncalls
    /\ event' = Event(op, arg, c.raised)
    /\ UNCHANGED <<parserVars, commandVars, producerVars>>

\* the caller makes one more call
Called == [Client EXCEPT !.ncalls = @ + 1]

\* exclusive: a connect is running
ConnectRunning(c) == c.connectPc # "idle"

\* connect up to the yield on the transport
Connect(c) ==
    IF ConnectRunning(c) THEN Raise(c, AlreadyRunning)
    ELSE IF c.state # S_DISCONNECTED THEN [c EXCEPT !.connectResult = ProtocolError]
    ELSE LET c1 == [c EXCEPT !.state = S_CONNECTING]
         IN IF c1.protocol # "none" THEN [c1 EXCEPT !.connectResult = AlreadyConnected]
            ELSE [c1 EXCEPT !.connectPc = "transport", !.connectResult = "pending"]

\* connect from the transport to the yield on the negotiation waiter
Connected(c) ==
    SendFrame([c EXCEPT !.protocol = "open", !.nconn = @ + 1, !.loseRequested = FALSE,
                        !.sent = <<>>, !.outcomes = <<>>, !.flushed = <<>>,
                        !.results = NoResults, !.disconnected = "pending",
                        !.disconnectReason = "none", !.causes = <<>>,
                        !.connecting = TRUE, !.connectPc = "negotiating"],
              ConnectFrame)

\* connect when the transport could not be established
ConnectRefused(c) == [c EXCEPT !.connectPc = "idle", !.connectResult = EndpointFailed]

\* the caller calls connect; it reconnects once the last _disconnect has run out
ConnectCall ==
    /\ ncalls < MaxCalls
    /\ discPc = "idle"
    /\ Becomes(Connect(Called), "connect", NoArg)

TransportConnected ==
    /\ connectPc = "transport"
    /\ Becomes(Connected(Client), "transportConnected", NoArg)

TransportFailed ==
    /\ connectPc = "transport"
    /\ Becomes(ConnectRefused(Client), "transportFailed", NoArg)

\* the transport delivers a frame of the broker, whose message-ids are unique
Receive(f) ==
    /\ protocol = "open"
    /\ (IsFrame(f) /\ f.command = MESSAGE) =>
         /\ Len(sent) < MaxSent
         /\ f.id \notin DOMAIN messages \cup drain
    /\ Becomes(OnFrame(Client, f), "frame", IF IsFrame(f) THEN f ELSE NoArg)

\* the timeout of the negotiation waiter
ConnectedTimeout ==
    /\ connecting
    /\ Becomes(ConnectFailed(Client, BrokerSilent), "connectedTimeout", NoArg)

\* the timeout of the waiter of receipt r
ReceiptTimeout(r) ==
    /\ r \in DOMAIN receipts
    /\ Becomes(ResumeReceipt(Client, r, ReceiptLate), "receiptTimeout", NoArg)

\* a tick of the cooperative task of _disconnect
Tick ==
    /\ discPc = "tick"
    /\ \E m \in (IF drain = {} THEN {"none"} ELSE drain) :
          Becomes(DrainTick(Client, m), "tick", NoArg)

\* the timeout of the markers _disconnect waits for
DrainTimeout ==
    /\ discPc = "wait"
    /\ Becomes(DrainFailed(Errback(Client, drain, GoingDown)), "drainTimeout", NoArg)

\* the receipt ids the caller may use for a new operation
Fresh(r) ==
    \/ r = "none"
    \/ /\ r \notin DOMAIN receipts \cup sessionReceipts
       /\ ~(disconnecting /\ discReceipt = r)

DisconnectCall(receipt, failure) ==
    /\ ncalls < MaxCalls
    /\ Fresh(receipt)
    /\ Becomes(Disconnect(Called, receipt, failure), "disconnect", NoArg)

SendCall(receipt) ==
    /\ ncalls < MaxCalls
    /\ Fresh(receipt)
    /\ Len(sent) < MaxSent
    /\ Becomes(Send(Called, "/q", receipt), "send", NoArg)

SubscribeCall(call) ==
    /\ ncalls < MaxCalls
    /\ Fresh(call.receipt)
    /\ Len(sent) < MaxSent
    /\ Becomes(Subscribe(Called, call), "subscribe", NoArg)

UnsubscribeCall(token) ==
    /\ ncalls < MaxCalls
    /\ Len(sent) < MaxSent
    /\ Becomes(Unsubscribe(Called, token), "unsubscribe", NoArg)

BeginCall(transaction) ==
    /\ ncalls < MaxCalls
    /\ Len(sent) < MaxSent
    /\ Becomes(Begin(Called, transaction), "begin", NoArg)

AbortCall(transaction) ==
    /\ ncalls < MaxCalls
    /\ Len(sent) < MaxSent
    /\ Becomes(Abort(Called, transaction), "abort", NoArg)

CommitCall(transaction) ==
    /\ ncalls < MaxCalls
    /\ Len(sent) < MaxSent
    /\ Becomes(Commit(Called, transaction), "commit", NoArg)

\* the handler of message m returns or raises
HandlerFinish(m, outcome) ==
    /\ m \in DOMAIN messages
    /\ outcome = "hookRaised" => messages[m].sub.onMessageFailed = "custom"
    /\ Becomes(OnHandlerDone(Client, m, outcome), "handlerDone", NoArg)

\* the transport is gone
ConnectionLostEvent ==
    /\ protocol = "open"
    /\ Becomes(OnConnectionLost(Client), "connectionLost", NoArg)

ClientNext ==
    \/ ConnectCall
    \/ TransportConnected
    \/ TransportFailed
    \/ \E f \in InboundFrames : Receive(f)
    \/ ConnectedTimeout
    \/ \E r \in Receipts : ReceiptTimeout(r)
    \/ Tick
    \/ DrainTimeout
    \/ \E failure \in {"none", CallerFailure} : \E receipt \in {"none", "r2"} :
          DisconnectCall(receipt, failure)
    \/ \E receipt \in {"none", "r2"} : SendCall(receipt)
    \/ \E call \in SubscribeCalls : SubscribeCall(call)
    \/ \E token \in Tokens(Client) : UnsubscribeCall(token)
    \/ \E transaction \in Transactions : BeginCall(transaction)
    \/ \E transaction \in Transactions : AbortCall(transaction)
    \/ \E transaction \in Transactions : CommitCall(transaction)
    \/ \E m \in MsgIds : \E outcome \in {"ok", "raised", "hookRaised"} :
          HandlerFinish(m, outcome)
    \/ ConnectionLostEvent

\* a timer of the reactor is due
BeatFires(which) ==
    /\ heartBeats[which] # NoTimer /\ heartBeats[which] <= now
    /\ Becomes(Beat(Client, which), "beat", NoArg)

\* a tick goes by; the reactor runs the timers that are due first
TimePasses ==
    /\ now < MaxTime
    /\ \A which \in DOMAIN heartBeats : heartBeats[which] = NoTimer \/ heartBeats[which] > now
    /\ now' = now + 1
    /\ UNCHANGED <<parserVars, stompVars, commandVars, producerVars>>

\* what the broker sends to a client with heart-beats: CONNECTED with the
\* negotiated periods, and heart-beats
BeatFrames ==
    {[command |-> CONNECTED, beats |-> b]
        : b \in {<<0, 0>>, <<HeartBeatPeriod, 0>>, <<HeartBeatPeriod, HeartBeatPeriod>>}}
    \cup {HeartBeat}

\* the client with heart-beats, and a caller that connects and sends
BeatNext ==
    \/ ConnectCall
    \/ TransportConnected
    \/ \E f \in BeatFrames : Receive(f)
    \/ SendCall("none")
    \/ ConnectionLostEvent
    \/ \E which \in {"client", "server"} : BeatFires(which)
    \/ TimePasses

BeatStart == sversion = VERSION_1_1 /\ ClientNew /\ ParserIdle /\ CommandsIdle /\ ProducerIdle

BeatSpec == BeatStart /\ [][BeatNext]_vars

\* what the broker sends to a client with heart-beats that disconnects:
\* CONNECTED with the negotiated periods, a heart-beat, and the receipt of the
\* DISCONNECT frame
LastFrames ==
    {[command |-> CONNECTED, beats |-> <<HeartBeatPeriod, HeartBeatPeriod>>],
     [command |-> RECEIPT, id |-> "r1"],
     HeartBeat}

\* the client with heart-beats, and a caller that connects, sends and
\* disconnects
LastNext ==
    \/ ConnectCall
    \/ TransportConnected
    \/ \E f \in LastFrames : Receive(f)
    \/ SendCall("none")
    \/ \E receipt \in {"none", "r1"} : DisconnectCall(receipt, "none")
    \/ \E r \in Receipts : ReceiptTimeout(r)
    \/ ConnectionLostEvent
    \/ \E which \in {"client", "server"} : BeatFires(which)
    \/ TimePasses

LastStart == sversion = VERSION_1_1 /\ ClientNew /\ ParserIdle /\ CommandsIdle /\ ProducerIdle

LastSpec == LastStart /\ [][LastNext]_vars

\* what the broker sends to a client that disconnects: CONNECTED, messages and
\* the receipt of the DISCONNECT frame
LiveFrames ==
    {[command |-> CONNECTED, beats |-> <<0, 0>>], [command |-> RECEIPT, id |-> "r2"]}
    \cup {[command |-> MESSAGE, id |-> m, destination |-> c.destination,
           subscription |-> c.headers["id"]] : m \in MsgIds, c \in SubscribeCalls}

\* the client, and a caller that connects, subscribes and disconnects
LiveNext ==
    \/ ConnectCall
    \/ TransportConnected
    \/ \E f \in LiveFrames : Receive(f)
    \/ \E call \in SubscribeCalls : SubscribeCall(call)
    \/ \E receipt \in {"none", "r2"} : DisconnectCall(receipt, "none")
    \/ Tick
    \/ DrainTimeout
    \/ \E r \in Receipts : ReceiptTimeout(r)
    \/ \E m \in MsgIds : \E outcome \in {"ok", "raised"} : HandlerFinish(m, outcome)
    \/ ConnectionLostEvent

\* the transport reports the loss of the connection the client asked it to close
TransportCloses == loseRequested /\ ConnectionLostEvent

\* the transport is open and was asked to close: TransportCloses is enabled
ClosePending == loseRequested /\ protocol = "open"

\* what the reactor and the transport guarantee: the cooperative task of
\* _disconnect gets its ticks, the timeouts of the drain and of the receipts are
\* finite, and a transport that was asked to close reports the loss (the weak
\* fairness of TransportCloses, with its enabling condition written out)
LiveFairness ==
    /\ WF_vars(Tick)
    /\ WF_vars(DrainTimeout)
    /\ \A r \in Receipts : WF_vars(ReceiptTimeout(r))
    /\ []<>(~ClosePending) \/ []<><<TransportCloses>>_vars

LiveStart == ClientInit /\ ParserIdle /\ CommandsIdle /\ ProducerIdle

LiveSpec == LiveStart /\ [][LiveNext]_vars /\ LiveFairness

\* what the broker sends to a client that disconnects late: CONNECTED and two
\* messages
LateFrames ==
    {[command |-> CONNECTED, beats |-> <<0, 0>>]}
    \cup {[command |-> MESSAGE, id |-> m, destination |-> c.destination,
           subscription |-> c.headers["id"]] : m \in {"m1", "m2"}, c \in SubscribeCalls}

\* the client with a caller that connects, subscribes and disconnects while
\* messages keep coming
LateNext ==
    \/ ConnectCall
    \/ TransportConnected
    \/ \E f \in LateFrames : Receive(f)
    \/ \E call \in SubscribeCalls : SubscribeCall(call)
    \/ DisconnectCall("none", "none")
    \/ Tick
    \/ DrainTimeout
    \/ \E m \in {"m1", "m2"} : \E outcome \in {"ok", "raised"} : HandlerFinish(m, outcome)
    \/ ConnectionLostEvent

LateStart == ClientInit /\ ParserIdle /\ CommandsIdle /\ ProducerIdle

LateSpec == LateStart /\ [][LateNext]_vars

\* the client and its caller, beside a parser that is fed nothing
ClientStart == ClientInit /\ ParserIdle /\ CommandsIdle /\ ProducerIdle

ClientSpec == ClientStart /\ [][ClientNext]_vars

\* the parser and its caller, beside a client nobody calls
ParserStart == ParserInit /\ ClientIdle /\ CommandsIdle /\ ProducerIdle

ParserSpec == ParserStart /\ [][ParserNext]_vars

ResetSpec == ParserStart /\ [][ResetNext]_vars

-----------------------------------------------------------------------------
(* The commands API: connected, ack, nack *)

Raised(e) == [kind |-> "raised", error |-> e]
Returned(value) == [kind |-> "returned", value |-> value]

\* headers.get(name), with "None" for a header that is not there
HeaderOr(headers, name, default) ==
    IF name \in DOMAIN headers THEN headers[name] ELSE default

\* value.split(sep)
RECURSIVE Split(_, _)
Split(value, sep) ==
    LET i == Index(value, sep)
    IN IF i = 0 THEN <<value>>
       ELSE <<SubSeq(value, 1, i - 1)>> \o Split(SubSeq(value, i + 1, Len(value)), sep)

\* the heart-beat header: two non-negative integers separated by ','
HeartBeatsOf(value) ==
    LET parts == Split(value, ",")
    IN IF Len(parts) # 2 \/ \E i \in 1..2 : ~IntOk(parts[i]) THEN Raised(ProtocolError)
       ELSE IF \E i \in 1..2 : ToInt(parts[i]) < 0 THEN Raised(ProtocolError)
       ELSE Returned(<<ToInt(parts[1]), ToInt(parts[2])>>)

\* a connected that reads the heart-beat header whatever the version
commands_connected_any(f, versions) ==
    LET headers == f.headers
        v == HeaderOr(headers, "version", VERSION_1_0)
        beats == IF "heart-beat" \notin DOMAIN headers THEN Returned(<<0, 0>>)
                 ELSE HeartBeatsOf(headers["heart-beat"])
    IN IF f.command # CONNECTED \/ v \notin versions THEN Raised(ProtocolError)
       ELSE IF beats.kind = "raised" THEN beats
       ELSE Returned(<<v, HeaderOr(headers, "server", "None"),
                       HeaderOr(headers, "session", "None"), beats.value>>)

\* commands.connected(f, versions)
commands_connected(f, versions) ==
    LET headers == f.headers
        v == HeaderOr(headers, "version", VERSION_1_0)
        beats == IF v = VERSION_1_0 \/ "heart-beat" \notin DOMAIN headers
                 THEN Returned(<<0, 0>>)
                 ELSE HeartBeatsOf(headers["heart-beat"])
    IN IF f.command # CONNECTED \/ v \notin versions THEN Raised(ProtocolError)
       ELSE IF beats.kind = "raised" THEN beats
       ELSE Returned(<<v, HeaderOr(headers, "server", "None"),
                       HeaderOr(headers, "session", "None"), beats.value>>)

\* the headers of an ACK or NACK for the MESSAGE frame
AckHeaders(f, transactions, receipt) ==
    LET kept == {"message-id", "subscription"}
                \cup (IF "transaction" \in DOMAIN f.headers
                         /\ f.headers["transaction"] \in transactions
                      THEN {"transaction"} ELSE {})
    IN WithReceipt([n \in kept \cap DOMAIN f.headers |-> f.headers[n]], receipt)

\* an ack that keeps the transaction header of the MESSAGE frame
commands_ack_any(f, transactions, receipt, v) ==
    IF f.command # MESSAGE \/ "message-id" \notin DOMAIN f.headers
       \/ (v # VERSION_1_0 /\ "subscription" \notin DOMAIN f.headers)
    THEN Raised(ProtocolError)
    ELSE Returned(Frame(ACK, AckHeaders(f, {"man", "woman"}, receipt)))

\* commands.ack(f, transactions, receipt, version)
commands_ack(f, transactions, receipt, v) ==
    IF f.command # MESSAGE \/ "message-id" \notin DOMAIN f.headers
       \/ (v # VERSION_1_0 /\ "subscription" \notin DOMAIN f.headers)
    THEN Raised(ProtocolError)
    ELSE Returned(Frame(ACK, AckHeaders(f, transactions, receipt)))

\* commands.nack(f, transactions, receipt, version)
commands_nack(f, transactions, receipt, v) ==
    IF v = VERSION_1_0 \/ f.command # MESSAGE
       \/ "message-id" \notin DOMAIN f.headers
       \/ "subscription" \notin DOMAIN f.headers
    THEN Raised(ProtocolError)
    ELSE Returned(Frame(NACK, AckHeaders(f, transactions, receipt)))

\* the headers h restricted to the names in keep
Only(h, keep) == [n \in keep |-> h[n]]

\* the values of the heart-beat header; <<"None">> stands for Python's None
BeatValues ==
    { <<"1", ",", "2">>, <<"1", "0", ",", "0">>, <<"-", "1", ",", "0">>,
      <<"0", ",", "-", "1">>, <<"-", "1", ",", "-", "1">>, <<"2">>, <<",">>,
      <<",", "2">>, <<"2", ",">>, <<"None">> }

\* the frames handed to connected
ConnectedFrames ==
    LET all(v, b) == ("version" :> v) @@ ("server" :> "moon") @@ ("session" :> "hi")
                     @@ ("heart-beat" :> b)
    IN { Frame(c, Only(all(v, b), keep))
           : c \in {CONNECTED, MESSAGE}, v \in {"1.0", "1.1", "1.2"}, b \in BeatValues,
             keep \in {{}, {"session"}, {"version"}, {"version", "session"},
                       {"version", "server"}, {"heart-beat", "session"},
                       {"version", "heart-beat"}, {"version", "heart-beat", "session"}} }

\* the frames handed to ack and nack
MessageFrames ==
    LET all == [n \in {"message-id", "subscription", "transaction", "4711"} |->
                   CASE n = "message-id" -> "hi" [] n = "subscription" -> "there"
                     [] n = "transaction" -> "man" [] n = "4711" -> "0815"]
    IN { Frame(c, Only(all, keep)) : c \in {MESSAGE, CONNECTED}, keep \in SUBSET DOMAIN all }

\* the transactions argument: None is no active transaction
TransactionSets == {{}, {"man"}, {"woman"}, {"man", "woman"}}

\* a call is about to be made
CommandsInit ==
    /\ result = [kind |-> "none"]
    /\ arguments \in
         {[name |-> "connected", frame |-> f, versions |-> vs]
             : f \in ConnectedFrames, vs \in (SUBSET VERSIONS) \ {{}}}
         \cup {[name |-> n, frame |-> f, transactions |-> t, receipt |-> r, version |-> v]
                 : n \in {"ack", "nack"}, f \in MessageFrames, t \in TransactionSets,
                   r \in {"none", "4711"}, v \in VERSIONS}

ConnectedCall ==
    /\ arguments.name = "connected" /\ result.kind = "none"
    /\ result' = commands_connected(arguments.frame, arguments.versions)
    /\ UNCHANGED <<arguments, parserVars, clientVars, producerVars>>

AckCall ==
    /\ arguments.name = "ack" /\ result.kind = "none"
    /\ result' = commands_ack(arguments.frame, arguments.transactions,
                              arguments.receipt, arguments.version)
    /\ UNCHANGED <<arguments, parserVars, clientVars, producerVars>>

NackCall ==
    /\ arguments.name = "nack" /\ result.kind = "none"
    /\ result' = commands_nack(arguments.frame, arguments.transactions,
                               arguments.receipt, arguments.version)
    /\ UNCHANGED <<arguments, parserVars, clientVars, producerVars>>

CommandsNext == ConnectedCall \/ AckCall \/ NackCall

CommandsStart == CommandsInit /\ ParserIdle /\ ClientIdle /\ ProducerIdle

CommandsSpec == CommandsStart /\ [][CommandsNext]_vars

-----------------------------------------------------------------------------
(* The producer: send_message *)

\* the broker and the queue of a call that names none
DefaultBroker == "tcp://localhost:61613"
DefaultQueue == "pods2jbpm"

\* send_message is called: nothing was done yet
ProducerInit ==
    producer \in
        {[pc |-> "called", messageBody |-> b, destination |-> d, queueName |-> q,
          calls |-> <<>>, open |-> FALSE, raised |-> "none"]
            : b \in {"", "a", "b", "c"},
              d \in {"None", DefaultBroker, "tcp://broker:61613"},
              q \in {"None", DefaultQueue, "other"}}

\* the uri of the StompConfig of the client
ProducerUri(p) == IF p.destination # "None" THEN p.destination ELSE DefaultBroker

\* QUEUE
ProducerQueue(p) == IF p.queueName # "None" THEN p.queueName ELSE DefaultQueue

\* client = Stomp(StompConfig(...)); client.connect(), which returns with the
\* connection open or raises without one
ProducerConnect(p, ok) ==
    [p EXCEPT !.calls = Append(@, <<"connect", ProducerUri(p)>>),
              !.pc = IF ok THEN "connected" ELSE "raised",
              !.raised = IF ok THEN @ ELSE "connect",
              !.open = ok]

\* client.send(QUEUE, body), which returns or raises; the exception leaves
\* send_message, and the connection is open or not, as the client left it
ProducerSend(p, ok, open) ==
    [p EXCEPT !.calls = Append(@, <<"send", ProducerQueue(p), p.messageBody>>),
              !.pc = IF ok THEN "sent" ELSE "raised",
              !.raised = IF ok THEN @ ELSE "send",
              !.open = IF ok THEN @ ELSE open]

\* client.disconnect(), which closes the connection and returns, or raises
ProducerDisconnect(p, ok, open) ==
    [p EXCEPT !.calls = Append(@, <<"disconnect">>),
              !.pc = IF ok THEN "returned" ELSE "raised",
              !.raised = IF ok THEN @ ELSE "disconnect",
              !.open = IF ok THEN FALSE ELSE open]

ConnectStep ==
    /\ producer.pc = "called"
    /\ \E ok \in BOOLEAN : producer' = ProducerConnect(producer, ok)
    /\ UNCHANGED <<parserVars, clientVars, commandVars>>

SendStep ==
    /\ producer.pc = "connected"
    /\ \E ok \in BOOLEAN : \E open \in BOOLEAN : producer' = ProducerSend(producer, ok, open)
    /\ UNCHANGED <<parserVars, clientVars, commandVars>>

DisconnectStep ==
    /\ producer.pc = "sent"
    /\ \E ok \in BOOLEAN : \E open \in BOOLEAN :
          producer' = ProducerDisconnect(producer, ok, open)
    /\ UNCHANGED <<parserVars, clientVars, commandVars>>

ProducerNext == ConnectStep \/ SendStep \/ DisconnectStep

ProducerStart == ProducerInit /\ ParserIdle /\ ClientIdle /\ CommandsIdle

ProducerSpec == ProducerStart /\ [][ProducerNext]_vars

\* C28 as stated: a call of send_message that has returned has made connect
\* (to the given broker, or to tcp://localhost:61613), one send of the body
\* to the queue (the given one, or pods2jbpm) and disconnect, in that order;
\* and no call that has returned or has ended with an error of send leaves
\* the connection open
ProducerAlwaysCloses ==
    /\ producer.pc = "returned" =>
          producer.calls =
              << <<"connect", IF producer.destination = "None"
                              THEN "tcp://localhost:61613" ELSE producer.destination>>,
                 <<"send", IF producer.queueName = "None"
                           THEN "pods2jbpm" ELSE producer.queueName,
                   producer.messageBody>>,
                 <<"disconnect">> >>
    /\ (producer.pc = "returned" \/ (producer.pc = "raised" /\ producer.raised = "send"))
          => ~producer.open

\* what does hold: the calls are made in that order and with those
\* arguments, as far as the call gets, and a call that has returned has
\* closed its connection
ProducerSequence ==
    /\ producer.pc \notin {"none", "called"} =>
          LET all == << <<"connect", IF producer.destination = "None"
                                     THEN "tcp://localhost:61613"
                                     ELSE producer.destination>>,
                        <<"send", IF producer.queueName = "None"
                                  THEN "pods2jbpm" ELSE producer.queueName,
                          producer.messageBody>>,
                        <<"disconnect">> >>
          IN /\ Len(producer.calls) \in 1..3
             /\ producer.calls = SubSeq(all, 1, Len(producer.calls))
             /\ producer.pc = "returned" => Len(producer.calls) = 3
             /\ producer.pc = "raised" =>
                   producer.calls[Len(producer.calls)][1] = producer.raised
    /\ producer.pc = "returned" => ~producer.open

-----------------------------------------------------------------------------
(* The asynchronous client: properties *)

\* the failures of class StompCancelledError
Cancelled == {BrokerSilent, HandlersLate, DisconnectReceiptLate, ReceiptLate,
              ConnectionLost, GoingDown}

\* the step in which _onConnectionLost runs
Lost == protocol = "open" /\ protocol' = "none"

\* the step in which _onFrame dispatches a RECEIPT for receipt r without an error
Dispatched(r) ==
    /\ event'.arg.command = RECEIPT
    /\ event'.arg.id = r
    /\ event'.raised = "none"
    /\ protocol = "open"

\* the fields of the client and its session, without what the caller observes
clientState == <<sversion, sessionState, sessionSubs, sessionReceipts,
                 sessionTransactions, protocol,
                 connecting, disconnecting, disconnectReason, disconnected, messages,
                 receipts, subscriptions, connectPc, discPc, discReceipt, drain,
                 drainOn, loseRequested, sent, connectResult, results, outcomes,
                 flushed, lostSubs, causes, nconn>>

\* C4: the completion of an operation sent with receipt r succeeds only in the step
\* that dispatches a RECEIPT for r; otherwise it fails with a StompCancelledError,
\* the one of the receipt timeout or, in the step of the connection loss, the one of
\* the loss. The same holds for the wait of _disconnect for the DISCONNECT receipt,
\* which goes on without a failure only when its RECEIPT is dispatched.
ReceiptCorrelation ==
    [][/\ \A r \in Receipts :
            /\ (results[r] # "ok" /\ results'[r] = "ok") =>
                  results[r] = "pending" /\ Dispatched(r)
            /\ (results[r] = "pending" /\ results'[r] \notin {"pending", "ok"}) =>
                  /\ results'[r] \in {ReceiptLate, ConnectionLost}
                  /\ results'[r] \in Cancelled
                  /\ results'[r] = ConnectionLost <=> Lost
       /\ (discPc = "receipt" /\ discPc' # "receipt") =>
            \/ Dispatched(discReceipt) /\ causes' = causes
            \/ /\ causes' = Append(causes, DisconnectReceiptLate)
               /\ DisconnectReceiptLate \in Cancelled
               /\ ~Dispatched(discReceipt)
      ]_vars

\* a RECEIPT for r2 has resolved the send it belongs to while the subscription sent
\* with r1 still waits
ReceiptCorrelationWitness ==
    /\ event.arg.command = RECEIPT
    /\ event.arg.id = "r2"
    /\ results["r2"] = "ok"
    /\ results["r1"] = "pending"

\* C5: a connect call while connect is running, and a disconnect call while a
\* disconnect has not ended in the loss of the connection, raises
\* StompAlreadyRunningError, and the step of such a call changes nothing of the
\* client.
CommandExclusivity ==
    [][/\ ConnectRunning(Client) => Connect(Client).raised = AlreadyRunning
       /\ disconnecting =>
            /\ protocol = "open"
            /\ \A receipt \in {"none", "r2"}, failure \in {"none", CallerFailure} :
                  Disconnect(Client, receipt, failure).raised = AlreadyRunning
       /\ (event'.raised = AlreadyRunning /\ event'.op \in {"connect", "disconnect"}) =>
            /\ UNCHANGED clientState
            /\ event'.op = "connect" => ConnectRunning(Client)
            /\ event'.op = "disconnect" => disconnecting
      ]_vars

\* the caller called disconnect again while _disconnect waits for the receipt
CommandExclusivityWitness ==
    /\ event.op = "disconnect"
    /\ event.raised = AlreadyRunning
    /\ disconnecting
    /\ discPc = "receipt"

\* C6: the step of the connection loss, and no other, resolves the disconnected
\* completion of the connection, once: with success exactly when a disconnect is
\* running and no failure was recorded for it, otherwise with the failure recorded
\* first, which is the StompConnectionError of the unexpected loss when no
\* disconnect is running.
DisconnectedOutcome ==
    [][/\ Lost =>
            /\ disconnected = "pending" /\ disconnected' = "none"
            /\ outcomes = <<>> /\ Len(outcomes') = 1
            /\ outcomes'[1] = "ok" <=> (disconnecting /\ causes' = <<>>)
            /\ outcomes'[1] # "ok" => outcomes'[1] = causes'[1]
            /\ ~disconnecting => outcomes'[1] = UnexpectedLoss
       /\ ~Lost => (outcomes' = outcomes \/ (protocol' = "open" /\ outcomes' = <<>>))
      ]_vars

\* disconnected failed with the failure the caller passed, although a later failure
\* was recorded as well
DisconnectedOutcomeWitness ==
    /\ outcomes = <<CallerFailure>>
    /\ Len(causes) > 1
    /\ protocol = "none"

\* C7: the session was flushed exactly when disconnected succeeded.
FlushIffClean ==
    outcomes # <<>> => (flushed[1] <=> outcomes[1] = "ok")

\* C8, as stated: a loss that lets disconnected succeed preserves the registry of
\* the session, and one that lets it fail clears it.
RegistryPreservedIfClean ==
    [][Lost => /\ outcomes'[1] = "ok" => sessionSubs' = sessionSubs
               /\ outcomes'[1] # "ok" => sessionSubs' = <<>>
      ]_vars

\* C8: the loss of the connection clears the registry of the session when no failure
\* is recorded as it closes the session, which is so whenever disconnected succeeds,
\* and preserves it when a failure is recorded by then, which is so whenever no
\* disconnect is running.
RegistryClearedIfClean ==
    [][Lost =>
         /\ sessionSubs' = IF disconnecting /\ disconnectReason = "none" THEN <<>>
                           ELSE sessionSubs
         /\ outcomes'[1] = "ok" => sessionSubs' = <<>>
         /\ ~disconnecting => sessionSubs' = sessionSubs
         /\ sessionState' = S_DISCONNECTED
      ]_vars

\* after a clean disconnect the session has no subscription left, while the client
\* still holds the one it had
RegistryClearedIfCleanWitness ==
    /\ outcomes = <<"ok">>
    /\ sessionSubs = <<>>
    /\ DOMAIN subscriptions # {}
    /\ protocol = "none"

\* the SUBSCRIBE frame f replays the entry of the registry
Replays(f, entry) ==
    /\ f.command = SUBSCRIBE
    /\ f.headers["destination"] = entry.destination
    /\ \A h \in DOMAIN entry.headers :
          h \in DOMAIN f.headers /\ f.headers[h] = entry.headers[h]

\* C9: the step that processes CONNECTED for a waiting connect writes one SUBSCRIBE
\* frame for each subscription the session held before the last loss that failed
\* disconnected, in their order and with their destination, headers and context,
\* and resolves connect.
ReplayFidelity ==
    [][(sessionState = S_CONNECTING /\ sessionState' = S_CONNECTED /\ connecting) =>
         /\ connectResult = "pending" /\ connectResult' = "ok"
         /\ Len(sent') = Len(sent) + Len(lostSubs)
         /\ \A i \in 1..Len(lostSubs) :
               i <= Len(sent') - Len(sent) => Replays(sent'[Len(sent) + i], lostSubs[i])
         /\ sessionSubs' = lostSubs
         /\ \A i \in 1..Len(lostSubs) :
               /\ lostSubs[i].token \in DOMAIN subscriptions'
               /\ subscriptions'[lostSubs[i].token].handler = lostSubs[i].context.handler
      ]_vars

\* C10: the loss of the connection fails the negotiation waiter, every receipt waiter
\* and every marker that has not fired with the StompCancelledError of the loss, and
\* while there is no connection none of them is pending, nor is a completion that
\* waits for one of them.
WaitersCancelled ==
    [][/\ Lost =>
            /\ \A r \in Receipts : results[r] = "pending" => results'[r] = ConnectionLost
            /\ \A m \in DOMAIN messages :
                  /\ m \in DOMAIN messages'
                  /\ messages[m].result = "waiting" => messages'[m].result = ConnectionLost
            /\ connecting => connectResult' \notin {"pending", "ok"}
            /\ discPc \in {"wait", "receipt"} => discPc' = "idle"
            /\ ConnectionLost \in Cancelled
       /\ protocol = "none" =>
            /\ ~connecting /\ DOMAIN receipts = {}
            /\ \A m \in DOMAIN messages : messages[m].result # "waiting"
            /\ \A r \in Receipts : results[r] # "pending"
            /\ connectPc \in {"idle", "transport"}
            /\ discPc \in {"idle", "tick"}
      ]_vars

\* the connection was lost while a subscription waited for its receipt and a handler
\* ran
WaitersCancelledWitness ==
    /\ protocol = "none"
    /\ results["r1"] = ConnectionLost
    /\ \E m \in DOMAIN messages : messages[m].result = ConnectionLost

\* the results of the calls that need a session in state CONNECTED, made now
SessionCalls(c) ==
    {Send(c, "/q", r) : r \in {"none", "r2"}}
    \cup {Subscribe(c, call) : call \in SubscribeCalls}
    \cup {Unsubscribe(c, Token(c.sversion, call.destination, call.headers["id"]))
             : call \in SubscribeCalls}
    \cup {Ack(c, m) : m \in MsgIds} \cup {Nack(c, m) : m \in MsgIds}
    \cup {Begin(c, t) : t \in Transactions} \cup {Commit(c, t) : t \in Transactions}
    \cup {Abort(c, t) : t \in Transactions}

\* the results of sendFrame and disconnect, made now
TransportCalls(c) ==
    {SendFrame(c, ConnectFrame)}
    \cup {Disconnect(c, r, f) : r \in {"none", "r2"}, f \in {"none", CallerFailure}}

\* C11: in every state in which the session is not CONNECTED, send, subscribe,
\* unsubscribe, ack, nack, begin, commit and abort fail and write no frame; without
\* a transport they, sendFrame and disconnect fail with the connection error
\* 'Not connected' and write no frame
NotConnectedFails ==
    /\ sessionState # S_CONNECTED =>
          \A x \in SessionCalls(Client) : x.raised # "none" /\ x.sent = sent
    /\ protocol = "none" =>
          \A x \in SessionCalls(Client) \cup TransportCalls(Client) :
              x.raised = NotConnected /\ x.sent = sent

\* a send was refused after DISCONNECT had been written to an open transport
NotConnectedFailsWitness ==
    /\ event.op = "send" /\ event.raised = ProtocolError
    /\ sessionState = S_DISCONNECTING /\ protocol = "open"
    /\ \E i \in DOMAIN sent : sent[i].command = DISCONNECT

\* the frames written in this step
Written == IF Len(sent') >= Len(sent) /\ SubSeq(sent', 1, Len(sent)) = sent
           THEN SubSeq(sent', Len(sent) + 1, Len(sent'))
           ELSE sent'

\* the number of ACK frames for message m written in this step
AcksWritten(m) == Cardinality({i \in DOMAIN Written : Written[i] = AckFrame(m)})

\* the step in which the handler of message m, delivered to a subscription with
\* auto-ack, finishes while the client is connected
AutoAckFinish(m) ==
    /\ m \in DOMAIN messages /\ m \notin DOMAIN messages'
    /\ messages[m].sub.ack
    /\ protocol = "open" /\ protocol' = "open"
    /\ sessionState = S_CONNECTED

\* C12: the step in which the handler of a message of an auto-ack subscription
\* finishes, with the client connected, writes exactly one ACK for the message,
\* whether the handler succeeded or failed and whatever the failure hook did; no
\* other step writes an ACK
AutoAckOnce ==
    [][\A m \in MsgIds : AcksWritten(m) = IF AutoAckFinish(m) THEN 1 ELSE 0]_vars

\* since the connection, the client subscribed to /c only (auto-ack, a custom
\* hook), the handler of m1 failed, the hook raised, and there is one ACK
AutoAckOnceWitness ==
    /\ Len(sent) = 3
    /\ sent[2].command = SUBSCRIBE /\ sent[2].headers["destination"] = "/c"
    /\ sent[3] = AckFrame("m1")
    /\ HookFailure \in {causes[i] : i \in DOMAIN causes}
    /\ protocol = "open"

\* the step in which the waiter of receipt r leaves the registry while the
\* transport stays and no RECEIPT is dispatched: its timeout
TimedOut(r) ==
    /\ r \in DOMAIN receipts /\ r \notin DOMAIN receipts'
    /\ protocol = "open" /\ protocol' = "open"
    /\ event'.arg.command # RECEIPT

\* the client and its session without the receipt waiters and the completions of
\* the operations
besideReceipts ==
    <<sversion, sessionState, sessionSubs, sessionReceipts, sessionTransactions,
      protocol, connecting, disconnecting, disconnectReason, disconnected, messages,
      subscriptions, connectPc, discPc, discReceipt, drain, drainOn, loseRequested,
      sent, connectResult, outcomes, flushed, lostSubs, causes, nconn>>

\* C13: when the waiter of the receipt r of an operation (send, subscribe) times
\* out, the completion of the operation fails with a StompCancelledError, the
\* waiter of r, and only it, leaves the registry, and nothing else changes: the
\* session state, the transport, the disconnect flags and the frames written stay
\* as they were
ReceiptTimeoutLocal ==
    [][\A r \in Receipts :
          (TimedOut(r) /\ receipts[r] # "disconnect") =>
              /\ results[r] = "pending" /\ results'[r] \in Cancelled
              /\ \A q \in Receipts \ {r} : results'[q] = results[q]
              /\ DOMAIN receipts' = DOMAIN receipts \ {r}
              /\ besideReceipts' = besideReceipts]_vars

\* the receipt of a send was late, and the client is connected as before
ReceiptTimeoutLocalWitness ==
    /\ results["r2"] = ReceiptLate /\ "r2" \notin DOMAIN receipts
    /\ sessionState = S_CONNECTED /\ protocol = "open"
    /\ ~disconnecting /\ ~loseRequested

\* clientThreshold * P, in ticks, for the period P the session holds after the step
ClientBeatDue == (DEFAULT_HEART_BEAT_THRESHOLDS["client"] * clientHeartBeat') \div 1000

\* a heart-beat is written in this step
BeatWritten == \E i \in DOMAIN Written : ~IsFrame(Written[i])

\* C14: with a client heart-beat period P > 0, a heart-beat is written only when
\* the time since lastSent has reached clientThreshold * P, and, while the client
\* is connected, the clock never gets further than that from lastSent, which
\* every frame written, heart-beats included, sets to the present
HeartBeatExact ==
    [][/\ BeatWritten => (clientHeartBeat' > 0 /\ now - lastSent >= ClientBeatDue)
       /\ Written # <<>> => lastSent' = now
       /\ (protocol' = "open" /\ sessionState' = S_CONNECTED /\ clientHeartBeat' > 0)
             => now' - lastSent' <= ClientBeatDue]_vars

\* a heart-beat was written after a SEND frame, a threshold after it
HeartBeatExactWitness ==
    /\ Len(sent) >= 3
    /\ ~IsFrame(sent[Len(sent)])
    /\ IsFrame(sent[Len(sent) - 1]) /\ sent[Len(sent) - 1].command = SEND
    /\ clientHeartBeat > 0 /\ lastSent = now /\ sessionState = S_CONNECTED

-----------------------------------------------------------------------------
(* The commands API: properties *)

\* CommandsTest.test_connected: <<frame, versions, what the call gives>>
test_connected ==
    LET hi == "session" :> "hi"
        v11 == "version" :> VERSION_1_1
        moon == "server" :> "moon"
        beat(b) == "heart-beat" :> b
    IN { <<Frame(CONNECTED, hi), {VERSION_1_0},
           Returned(<<"1.0", "None", "hi", <<0, 0>>>>)>>,
         <<Frame(CONNECTED, NoHeaders), {VERSION_1_0},
           Returned(<<"1.0", "None", "None", <<0, 0>>>>)>>,
         <<Frame(CONNECTED, hi), {VERSION_1_0, VERSION_1_1},
           Returned(<<"1.0", "None", "hi", <<0, 0>>>>)>>,
         <<Frame(CONNECTED, hi), {VERSION_1_1}, Raised(ProtocolError)>>,
         <<Frame(MESSAGE, NoHeaders), {VERSION_1_0}, Raised(ProtocolError)>>,
         <<Frame(MESSAGE, NoHeaders), {VERSION_1_1}, Raised(ProtocolError)>>,
         <<Frame(CONNECTED, hi @@ v11), {VERSION_1_1},
           Returned(<<"1.1", "None", "hi", <<0, 0>>>>)>>,
         <<Frame(CONNECTED, moon @@ v11), {VERSION_1_1},
           Returned(<<"1.1", "moon", "None", <<0, 0>>>>)>>,
         <<Frame(CONNECTED, hi @@ v11), {VERSION_1_0, VERSION_1_1},
           Returned(<<"1.1", "None", "hi", <<0, 0>>>>)>>,
         <<Frame(CONNECTED, moon @@ v11), {VERSION_1_0, VERSION_1_1},
           Returned(<<"1.1", "moon", "None", <<0, 0>>>>)>>,
         <<Frame(CONNECTED, hi @@ v11 @@ beat(<<"1", ",", "2">>)), {VERSION_1_1},
           Returned(<<"1.1", "None", "hi", <<1, 2>>>>)>>,
         <<Frame(CONNECTED, hi @@ ("version" :> VERSION_1_0) @@ beat(<<"1", ",", "2">>)),
           {VERSION_1_0}, Returned(<<"1.0", "None", "hi", <<0, 0>>>>)>> }
       \cup { <<Frame(CONNECTED, hi @@ v11 @@ beat(b)), {VERSION_1_1}, Raised(ProtocolError)>>
                : b \in { <<"-", "1", ",", "0">>, <<"0", ",", "-", "1">>,
                          <<"-", "1", ",", "-", "1">>, <<"2">>, <<",">>, <<",", "2">>,
                          <<"2", ",">>, <<"None">> } }

\* value is the text of two non-negative integers separated by one ','
TwoNonNegative(value) ==
    \E i \in 1..Len(value) :
        LET left == SubSeq(value, 1, i - 1)
            right == SubSeq(value, i + 1, Len(value))
        IN /\ value[i] = ","
           /\ \A j \in 1..Len(value) : value[j] = "," => j = i
           /\ IntOk(left) /\ ToInt(left) >= 0
           /\ IntOk(right) /\ ToInt(right) >= 0

\* the pair of integers a heart-beat header value stands for
PairOf(value) ==
    LET i == CHOOSE i \in 1..Len(value) : value[i] = ","
    IN <<ToInt(SubSeq(value, 1, i - 1)), ToInt(SubSeq(value, i + 1, Len(value)))>>

\* the call of connected that was made has returned or raised
ConnectedDone == arguments.name = "connected" /\ result.kind # "none"

\* C18: connected gives (version, server, session, heart-beats), the version
\* being the version header or 1.0 without one; it raises ProtocolError for
\* a command other than CONNECTED and for a version that is not accepted;
\* for 1.0 the heart-beats are (0, 0) whatever the heart-beat header says,
\* for 1.1 they are (0, 0) without the header, the pair in the header when
\* that is two non-negative integers separated by ',', and ProtocolError
\* otherwise. The calls of test_connected give what the test expects.
ConnectedContract ==
    /\ \A t \in test_connected : commands_connected(t[1], t[2]) = t[3]
    /\ ConnectedDone =>
         LET h == arguments.frame.headers
             v == IF "version" \in DOMAIN h THEN h["version"] ELSE VERSION_1_0
             server == IF "server" \in DOMAIN h THEN h["server"] ELSE "None"
             session == IF "session" \in DOMAIN h THEN h["session"] ELSE "None"
         IN IF arguments.frame.command # CONNECTED \/ v \notin arguments.versions
            THEN result = Raised(ProtocolError)
            ELSE IF v = VERSION_1_0 \/ "heart-beat" \notin DOMAIN h
            THEN result = Returned(<<v, server, session, <<0, 0>>>>)
            ELSE IF TwoNonNegative(h["heart-beat"])
            THEN result = Returned(<<v, server, session, PairOf(h["heart-beat"])>>)
            ELSE result = Raised(ProtocolError)

\* a 1.0 CONNECTED frame with a heart-beat header gave (0, 0)
ConnectedContractWitness ==
    /\ ConnectedDone
    /\ arguments.frame.command = CONNECTED
    /\ "heart-beat" \in DOMAIN arguments.frame.headers
    /\ arguments.frame.headers["heart-beat"] = <<"1", ",", "2">>
    /\ "version" \in DOMAIN arguments.frame.headers
    /\ arguments.frame.headers["version"] = VERSION_1_0
    /\ result = Returned(<<VERSION_1_0, "None", "hi", <<0, 0>>>>)

\* CommandsTest.test_ack: <<frame, transactions, receipt, version, what the call gives>>
test_ack ==
    LET id == "message-id" :> "hi"
        sub == "subscription" :> "there"
        man == "transaction" :> "man"
        extra == "4711" :> "0815"
        rcpt == "receipt" :> "4711"
    IN { <<Frame(MESSAGE, id), {}, "none", VERSION_1_0, Returned(Frame(ACK, id))>>,
         <<Frame(MESSAGE, id @@ sub), {}, "none", VERSION_1_0,
           Returned(Frame(ACK, id @@ sub))>>,
         <<Frame(MESSAGE, id @@ sub @@ man), {"man", "woman"}, "none", VERSION_1_0,
           Returned(Frame(ACK, id @@ sub @@ man))>>,
         <<Frame(MESSAGE, id @@ sub @@ man), {"woman"}, "none", VERSION_1_0,
           Returned(Frame(ACK, id @@ sub))>>,
         <<Frame(MESSAGE, id @@ sub @@ man), {}, "none", VERSION_1_0,
           Returned(Frame(ACK, id @@ sub))>>,
         <<Frame(MESSAGE, id), {}, "4711", VERSION_1_0, Returned(Frame(ACK, id @@ rcpt))>>,
         <<Frame(MESSAGE, id @@ sub @@ extra @@ man), {}, "none", VERSION_1_0,
           Returned(Frame(ACK, id @@ sub))>>,
         <<Frame(MESSAGE, id @@ sub @@ extra @@ man), {"man"}, "4711", VERSION_1_0,
           Returned(Frame(ACK, id @@ sub @@ man @@ rcpt))>>,
         <<Frame(MESSAGE, id @@ sub @@ man), {}, "none", VERSION_1_1,
           Returned(Frame(ACK, id @@ sub))>>,
         <<Frame(MESSAGE, id @@ sub @@ extra @@ man), {"man", "woman"}, "none", VERSION_1_1,
           Returned(Frame(ACK, id @@ sub @@ man))>>,
         <<Frame(CONNECTED, id), {}, "none", VERSION_1_0, Raised(ProtocolError)>>,
         <<Frame(CONNECTED, id), {}, "none", VERSION_1_1, Raised(ProtocolError)>>,
         <<Frame(MESSAGE, "subscription" :> "hi"), {}, "none", VERSION_1_0,
           Raised(ProtocolError)>>,
         <<Frame(MESSAGE, "subscription" :> "hi"), {}, "none", VERSION_1_1,
           Raised(ProtocolError)>>,
         <<Frame(MESSAGE, id), {}, "none", VERSION_1_1, Raised(ProtocolError)>> }

\* CommandsTest.test_nack: <<frame, transactions, receipt, version, what the call gives>>
test_nack ==
    LET id == "message-id" :> "hi"
        sub == "subscription" :> "there"
        man == "transaction" :> "man"
        extra == "4711" :> "0815"
        rcpt == "receipt" :> "4711"
    IN { <<Frame(MESSAGE, id @@ sub), {}, "none", VERSION_1_1,
           Returned(Frame(NACK, id @@ sub))>>,
         <<Frame(MESSAGE, id @@ sub), {}, "4711", VERSION_1_1,
           Returned(Frame(NACK, id @@ sub @@ rcpt))>>,
         <<Frame(MESSAGE, id @@ sub @@ man), {}, "none", VERSION_1_1,
           Returned(Frame(NACK, id @@ sub))>>,
         <<Frame(MESSAGE, id @@ sub @@ man), {"woman"}, "none", VERSION_1_1,
           Returned(Frame(NACK, id @@ sub))>>,
         <<Frame(MESSAGE, id @@ sub @@ man), {"man", "woman"}, "none", VERSION_1_1,
           Returned(Frame(NACK, id @@ sub @@ man))>>,
         <<Frame(MESSAGE, id @@ sub @@ extra), {}, "none", VERSION_1_1,
           Returned(Frame(NACK, id @@ sub))>>,
         <<Frame(CONNECTED, NoHeaders), {}, "none", VERSION_1_1, Raised(ProtocolError)>>,
         <<Frame(MESSAGE, id @@ sub), {}, "none", VERSION_1_0, Raised(ProtocolError)>>,
         <<Frame(MESSAGE, id @@ sub @@ man), {}, "none", VERSION_1_0,
           Raised(ProtocolError)>>,
         <<Frame(MESSAGE, "subscription" :> "hi"), {}, "none", VERSION_1_1,
           Raised(ProtocolError)>>,
         <<Frame(MESSAGE, id), {}, "none", VERSION_1_1, Raised(ProtocolError)>> }

\* the call of ack or nack that was made has returned or raised
AckDone == arguments.name \in {"ack", "nack"} /\ result.kind # "none"

\* the names of the headers the ACK or NACK of the call made may carry
AckNames ==
    LET h == arguments.frame.headers
    IN {"message-id"}
       \cup (IF "subscription" \in DOMAIN h THEN {"subscription"} ELSE {})
       \cup (IF "transaction" \in DOMAIN h /\ h["transaction"] \in arguments.transactions
             THEN {"transaction"} ELSE {})
       \cup (IF arguments.receipt # "none" THEN {"receipt"} ELSE {})

\* C19: ack and nack build a frame whose headers are exactly message-id,
\* the subscription of the MESSAGE when it has one, its transaction only
\* when that is one of the caller's active transactions, and the receipt
\* when one is given, every other header of the MESSAGE being dropped; they
\* raise ProtocolError for a frame that is not a MESSAGE, for a missing
\* message-id and, for 1.1, for a missing subscription, and nack raises
\* ProtocolError for version 1.0. The calls of test_ack and test_nack give
\* what the tests expect.
AckContract ==
    /\ \A t \in test_ack : commands_ack(t[1], t[2], t[3], t[4]) = t[5]
    /\ \A t \in test_nack : commands_nack(t[1], t[2], t[3], t[4]) = t[5]
    /\ AckDone =>
         LET f == arguments.frame
             h == f.headers
         IN IF \/ f.command # MESSAGE
               \/ "message-id" \notin DOMAIN h
               \/ arguments.version = VERSION_1_1 /\ "subscription" \notin DOMAIN h
               \/ arguments.name = "nack" /\ arguments.version = VERSION_1_0
            THEN result = Raised(ProtocolError)
            ELSE /\ result.kind = "returned"
                 /\ result.value.command = (IF arguments.name = "ack" THEN ACK ELSE NACK)
                 /\ DOMAIN result.value.headers = AckNames
                 /\ \A n \in AckNames :
                      result.value.headers[n] =
                          IF n = "receipt" THEN arguments.receipt ELSE h[n]

\* an ack for a MESSAGE of a transaction that is not active, with a header
\* of its own, carries neither the transaction nor that header
AckContractWitness ==
    /\ AckDone /\ arguments.name = "ack"
    /\ arguments.frame.command = MESSAGE
    /\ DOMAIN arguments.frame.headers = {"message-id", "subscription", "transaction", "4711"}
    /\ arguments.transactions = {"woman"}
    /\ arguments.receipt = "4711"
    /\ result.kind = "returned"
    /\ DOMAIN result.value.headers = {"message-id", "subscription", "receipt"}

-----------------------------------------------------------------------------
(* The asynchronous client: the drain of disconnect *)

\* this step writes a DISCONNECT frame
DisconnectWritten == \E i \in DOMAIN Written : Written[i].command = DISCONNECT

\* this step asks the transport to close
CloseRequested == loseRequested' /\ ~loseRequested

\* the drain timeout of the disconnect of this connection has expired
DrainExpired == \E i \in DOMAIN causes' : causes'[i] = HandlersLate

\* C20 as stated: DISCONNECT is written and the transport is asked to close
\* only when no message handler is in flight any more or the drain timeout
\* has expired
DrainsEveryHandler ==
    [][(DisconnectWritten \/ CloseRequested) => (DOMAIN messages = {} \/ DrainExpired)]_vars

\* the handlers in flight whose marker has not fired
Unfired == {m \in DOMAIN messages : messages[m].result = "waiting"}

\* what does hold: DISCONNECT is written and the transport is asked to close
\* only when every handler in flight has finished or had its marker fired
\* before (by the loss of an earlier connection or by an earlier drain
\* timeout), or the drain timeout has expired
DrainsUnfiredHandlers ==
    [][(DisconnectWritten \/ CloseRequested) => (Unfired = {} \/ DrainExpired)]_vars

\* the step in which the drain timeout expires
DrainTimeoutStep ==
    /\ discPc = "wait" /\ protocol' = "open"
    /\ \E m \in Unfired : m \in DOMAIN messages' /\ messages'[m].result = GoingDown

\* on expiry the failure is recorded and the disconnect goes on: DISCONNECT
\* is written if the session is CONNECTED, and the transport is asked to
\* close at once or, with a receipt, when the wait for it is over
DrainExpiryProceeds ==
    [][/\ DrainTimeoutStep =>
            /\ causes' = Append(causes, HandlersLate)
            /\ (sessionState = S_CONNECTED) <=> DisconnectWritten
            /\ IF sessionState = S_CONNECTED /\ discReceipt # "none"
               THEN discPc' = "receipt" /\ discReceipt \in DOMAIN receipts'
               ELSE discPc' = "idle" /\ loseRequested'
       /\ (discPc = "receipt" /\ discPc' # "receipt" /\ protocol' = "open")
            => loseRequested']_vars

-----------------------------------------------------------------------------
(* The asynchronous client: errors on inbound frames *)

\* this step handled an inbound frame and the handler raised: a RECEIPT that
\* is not pending, a CONNECTED for a session that is not connecting, or a
\* command without a handler
FrameRaised == event'.op = "frame" /\ event'.raised # "none" /\ protocol = "open"

\* C21 as stated: an error raised while an inbound frame is handled, with no
\* waiter to take it, starts a disconnect of the client with that error as
\* the failure cause
FrameErrorDisconnects ==
    [][(FrameRaised /\ ~disconnecting) =>
          /\ disconnecting'
          /\ disconnectReason' = event'.raised]_vars

\* what does hold: the error leaves _onFrame, and neither a disconnect nor a
\* failure cause comes of it
FrameErrorEscapes ==
    [][FrameRaised =>
          /\ disconnecting' = disconnecting
          /\ disconnectReason' = disconnectReason
          /\ causes' = causes
          /\ sent' = sent /\ loseRequested' = loseRequested]_vars

\* the ERROR frames of the broker
ErrorFrames == {f \in InboundFrames : f.command = ERROR}

\* the client once it has handled the inbound frame f
After(f) == OnFrame(Client, f)

ErrorFrameDisconnectWitness ==
    /\ disconnecting /\ connectResult = "ok"
    /\ causes = <<ErrorReceived>> /\ disconnectReason = ErrorReceived

-----------------------------------------------------------------------------
(* The asynchronous client: the timeout of the negotiation *)

\* the negotiation of this connection has timed out
NegotiationTimedOut == \E i \in DOMAIN causes : causes[i] = BrokerSilent

\* this step handles CONNECTED and writes a SUBSCRIBE frame: a replay
SubscribeReplayed ==
    /\ sessionState = S_CONNECTING /\ sessionState' = S_CONNECTED
    /\ \E i \in DOMAIN Written : Written[i].command = SUBSCRIBE

\* C23 as stated: when the negotiation waiter times out, the client starts a
\* disconnect with the StompCancelledError of the timeout, and from then on
\* writes no DISCONNECT and replays no subscription on this connection, and
\* connect does not succeed
TimeoutClosesSilently ==
    /\ [](connecting =>
            LET c == ConnectFailed(Client, BrokerSilent)
            IN /\ ~c.connecting /\ c.sent = sent /\ c.subscriptions = subscriptions
               /\ IF disconnecting
                  THEN c.connectPc = "idle" /\ c.connectResult = AlreadyRunning
                  ELSE /\ c.disconnecting /\ c.connectPc = "disconnecting"
                       /\ c.causes = Append(causes, BrokerSilent)
                       /\ c.disconnectReason = BrokerSilent
                       /\ DOMAIN messages = {} => c.loseRequested)
    /\ [][NegotiationTimedOut' =>
             /\ ~DisconnectWritten /\ ~SubscribeReplayed
             /\ connectResult' # "ok"]_vars

\* what does hold: when the negotiation waiter times out, the client starts
\* a disconnect with the StompCancelledError of the timeout (unless one is
\* running, and then connect fails with AlreadyRunning), which asks the
\* transport to close at once when no handler is in flight; from then on no
\* subscription is replayed on this connection and connect does not succeed,
\* and a DISCONNECT is written only if a CONNECTED frame that came after the
\* timeout has made the session CONNECTED before the disconnect got that far
TimeoutClosesConnection ==
    /\ [](connecting =>
            LET c == ConnectFailed(Client, BrokerSilent)
            IN /\ ~c.connecting /\ c.sent = sent /\ c.subscriptions = subscriptions
               /\ IF disconnecting
                  THEN c.connectPc = "idle" /\ c.connectResult = AlreadyRunning
                  ELSE /\ c.disconnecting /\ c.connectPc = "disconnecting"
                       /\ c.causes = Append(causes, BrokerSilent)
                       /\ c.disconnectReason = BrokerSilent
                       /\ DOMAIN messages = {} => c.loseRequested)
    /\ [][NegotiationTimedOut' =>
             /\ DisconnectWritten => (NegotiationTimedOut /\ sessionState = S_CONNECTED)
             /\ ~SubscribeReplayed
             /\ connectResult' # "ok"
             /\ (connectPc = "disconnecting" /\ connectPc' = "idle")
                   => connectResult' = BrokerSilent]_vars

\* connect has failed with the timeout of the negotiation, and nothing but
\* CONNECT was written on the connection
TimeoutClosesConnectionWitness ==
    /\ connectResult = BrokerSilent /\ connectPc = "idle"
    /\ outcomes = <<BrokerSilent>>
    /\ sent = <<ConnectFrame>>

-----------------------------------------------------------------------------
(* The asynchronous client: the heart-beats of the broker *)

\* serverThreshold * S, in ticks
ServerBeatDue == (DEFAULT_HEART_BEAT_THRESHOLDS["server"] * serverHeartBeat) \div 1000

\* this step records the silence of the broker as a failure cause
SilenceRecorded ==
    /\ Len(causes') = Len(causes) + 1
    /\ causes'[Len(causes')] = ServerSilent

-----------------------------------------------------------------------------
(* The asynchronous client: messages that arrive during a disconnect *)

\* the MESSAGE frames of the broker
LateMessages == {f \in LateFrames : f.command = MESSAGE}

\* C25: a MESSAGE frame that arrives once a disconnect has started reaches no
\* handler and registers no marker; the client tries to NACK it, the NACK is
\* written when the session allows it (version 1.1, still CONNECTED), and
\* otherwise its failure is suppressed; nothing else changes, the disconnect
\* included
LateMessageDropped ==
    (protocol = "open" /\ disconnecting) =>
        \A f \in LateMessages :
            LET c == After(f)
                nacked == sversion = VERSION_1_1 /\ sessionState = S_CONNECTED
            IN /\ c.messages = messages
               /\ c.raised = "none"
               /\ c.sent = IF nacked THEN Append(sent, NackFrame(f.id)) ELSE sent
               /\ [c EXCEPT !.sent = sent, !.lastSent = lastSent,
                            !.lastReceived = lastReceived] = Client

\* while the disconnect waits for the handler of m1, m2 has arrived and was
\* answered with a NACK
LateMessageDroppedWitness ==
    /\ disconnecting /\ discPc = "wait" /\ drainOn = "m1"
    /\ DOMAIN messages = {"m1"}
    /\ sent # <<>> /\ sent[Len(sent)] = NackFrame("m2")

-----------------------------------------------------------------------------
(* The asynchronous client: handlers that fail *)

\* the disconnect of c is where it was before the step
SameDisconnect(c) ==
    /\ c.disconnecting = disconnecting /\ c.disconnectReason = disconnectReason
    /\ c.causes = causes /\ c.loseRequested = loseRequested
    /\ \A i \in DOMAIN c.sent : i > Len(sent) => c.sent[i].command # DISCONNECT

\* C26: when a handler has failed and the failure hook returned, the client
\* starts no disconnect; when the hook itself raised and no disconnect is
\* running, the client starts a disconnect with the exception of the hook as
\* failure cause, and disconnected fails with it when the connection is lost
HandlerFailureContained ==
    /\ [](protocol = "open" =>
            \A m \in DOMAIN messages :
               /\ LET c == OnHandlerDone(Client, m, "raised")
                  IN m \notin DOMAIN c.messages /\ SameDisconnect(c)
               /\ messages[m].sub.onMessageFailed = "custom" =>
                     LET c == OnHandlerDone(Client, m, "hookRaised")
                     IN /\ m \notin DOMAIN c.messages
                        /\ IF disconnecting THEN SameDisconnect(c)
                           ELSE /\ c.disconnecting
                                /\ c.causes = Append(causes, HookFailure)
                                /\ c.disconnectReason = HookFailure)
    /\ [][(protocol = "open" /\ protocol' = "none" /\ disconnectReason = HookFailure)
             => (outcomes' # <<>> /\ outcomes'[Len(outcomes')] = HookFailure)]_vars

\* a failure hook has raised, and disconnected has failed with its exception
HandlerFailureContainedWitness ==
    /\ protocol = "none"
    /\ causes = <<HookFailure>>
    /\ outcomes = <<HookFailure>>

-----------------------------------------------------------------------------
(* The asynchronous client: the failure cause of a disconnect *)

\* C27: on a connection, the failure cause is the first one recorded, and a
\* cause recorded later never replaces it; when the connection is lost,
\* disconnected fails with that first cause (and succeeds when none was
\* recorded), and the cause is cleared
FirstCauseWins ==
    /\ [](protocol = "open" =>
            disconnectReason = IF causes # <<>> THEN causes[1] ELSE "none")
    /\ [](protocol = "none" => disconnectReason = "none")
    /\ [][(disconnectReason # "none" /\ protocol' = "open")
             => disconnectReason' = disconnectReason]_vars
    /\ [][Lost =>
             /\ outcomes' = Append(outcomes, IF causes' # <<>> THEN causes'[1] ELSE "ok")
             /\ disconnectReason' = "none"]_vars

\* two different causes were recorded on a connection, and disconnected has
\* failed with the first
FirstCauseWinsWitness ==
    /\ protocol = "none"
    /\ Len(causes) >= 2 /\ causes[2] # causes[1]
    /\ outcomes = <<causes[1]>>

-----------------------------------------------------------------------------
(* The asynchronous client: the last frame of a connection *)

\* the DISCONNECT frame has been written on this connection
DisconnectSent ==
    /\ protocol = "open"
    /\ \E i \in DOMAIN sent : IsFrame(sent[i]) /\ sent[i].command = DISCONNECT

\* C29 as stated: once the client has written the DISCONNECT frame on a
\* connection, it writes nothing further on that connection, neither a command
\* frame nor a heart-beat
DisconnectIsLast ==
    [][(DisconnectSent /\ protocol' = "open") => Written = <<>>]_vars

\* what the client does ensure: after the DISCONNECT frame it writes no command
\* frame on that connection; what it still writes are heart-beats, when the
\* timer of the client is due
OnlyBeatsAfterDisconnect ==
    [][(DisconnectSent /\ protocol' = "open") =>
          /\ \A i \in DOMAIN Written : Written[i] = HeartBeat
          /\ Written # <<>> => /\ clientHeartBeat > 0
                               /\ now - lastSent >= ClientBeatDue
                               /\ sessionState = S_DISCONNECTING]_vars

\* a heart-beat is the last thing written on a connection whose DISCONNECT
\* frame was written before
BeatAfterDisconnect ==
    /\ DisconnectSent
    /\ sent[Len(sent)] = HeartBeat
    /\ \E i \in 1..(Len(sent) - 1) : IsFrame(sent[i]) /\ sent[i].command = DISCONNECT

\* the same while the client still waits for the receipt of the DISCONNECT
\* frame, before it has asked the transport to close
BeatBeforeDisconnectReceipt ==
    /\ BeatAfterDisconnect
    /\ ~loseRequested
    /\ "r1" \in DOMAIN receipts

-----------------------------------------------------------------------------
(* The asynchronous client: the acknowledgement mode of a replayed subscription *)

\* the ack header of a SUBSCRIBE frame ("none" when it has none)
AckHeader(f) == IF "ack" \in DOMAIN f.headers THEN f.headers["ack"] ELSE "none"

\* the subscribe call of the caller that a SUBSCRIBE frame belongs to
CallOf(f) == CHOOSE call \in SubscribeCalls : call.destination = f.headers["destination"]

\* the SUBSCRIBE frames written in this step
SubscribesWritten ==
    {i \in DOMAIN Written : IsFrame(Written[i]) /\ Written[i].command = SUBSCRIBE}

\* this step processes CONNECTED for a waiting connect, and so replays
ReplayStep == sessionState = S_CONNECTING /\ sessionState' = S_CONNECTED /\ connecting

\* C30 as stated: the SUBSCRIBE frame of a subscription carries the same ack
\* header when the subscription is replayed as when the caller subscribed (the
\* default mode for a call with ack=true, none for a call with ack=false), and
\* the replay leaves the auto-ack setting of the client as the call set it
ReplayKeepsAck ==
    [][\A i \in SubscribesWritten :
          LET call == CallOf(Written[i])
              token == Token(sversion, call.destination, call.headers["id"])
          IN /\ AckHeader(Written[i]) = IF call.ack THEN DEFAULT_ACK_MODE ELSE "none"
             /\ subscriptions'[token].ack = call.ack
             /\ (ReplayStep /\ token \in DOMAIN subscriptions) =>
                   subscriptions'[token].ack = subscriptions[token].ack]_vars

\* what the client does: the subscribe call of the caller writes the ack header
\* and sets auto-ack as the call says, and the replay writes the default ack
\* mode and switches auto-ack on whatever the call said
ReplayDefaultsAck ==
    [][\A i \in SubscribesWritten :
          LET call == CallOf(Written[i])
              token == Token(sversion, call.destination, call.headers["id"])
              ack == ReplayStep \/ call.ack
          IN /\ AckHeader(Written[i]) = IF ack THEN DEFAULT_ACK_MODE ELSE "none"
             /\ subscriptions'[token].ack = ack]_vars

\* a subscription the caller created with ack=false has been replayed, and the
\* client now acknowledges its messages
ReplayedWithAutoAck ==
    /\ sessionState = S_CONNECTED /\ lostSubs # <<>>
    /\ \E call \in SubscribeCalls :
          LET token == Token(sversion, call.destination, call.headers["id"])
          IN /\ ~call.ack
             /\ token \in DOMAIN subscriptions /\ subscriptions[token].ack
             /\ \E i \in DOMAIN sent :
                   /\ IsFrame(sent[i]) /\ sent[i].command = SUBSCRIBE
                   /\ sent[i].headers["destination"] = call.destination
                   /\ AckHeader(sent[i]) = DEFAULT_ACK_MODE

-----------------------------------------------------------------------------
(* The parser: the frame that follows an invalid one *)

\* the valid frames of the version
ValidPieces == {piece \in FramePieces : Valid(piece, version)}

\* the parser after one more add call with the bytes of a frame
Fed(piece) == AddData(Parser, Serialise(piece))

\* the last add call raised StompFrameError
AddRaisedFrameError == raised = "StompFrameError"

\* C31 as stated: after add has raised StompFrameError (a command of no
\* version, or a header line without separator), a valid frame fed next to the
\* same parser, without reset, is queued as it is, and add does not raise
RecoversAfterInvalidFrame ==
    AddRaisedFrameError =>
        \A piece \in ValidPieces :
            /\ Fed(piece).err = "none"
            /\ Fed(piece).frames = Append(frames, Expected(piece))

\* what the parser does: after an invalid command it has dropped the command
\* line and queues the next frame as it is; after a header line without
\* separator it keeps the command, the headers and the line of the offending
\* frame, and the command line of the next frame is added to that header line,
\* so that add raises again and queues nothing
RetainsInvalidHeader ==
    AddRaisedFrameError =>
        /\ parse \in {"command", "headers"}
        /\ parse = "command" =>
              /\ buffer = <<>> /\ frame = NewFrame
              /\ \A piece \in ValidPieces :
                    /\ Fed(piece).err = "none"
                    /\ Fed(piece).frames = Append(frames, Expected(piece))
        /\ parse = "headers" =>
              /\ buffer # <<>> /\ frame.command # <<>>
              /\ \A piece \in ValidPieces :
                    /\ Fed(piece).err = "StompFrameError"
                    /\ Fed(piece).frames = frames
                    /\ Fed(piece).buffer = buffer \o piece.command

\* a header line without separator was fed, then a valid frame, and nothing is
\* queued or was returned
InvalidHeaderSwallowsFrame ==
    /\ Len(input) = 2 /\ wire = <<>>
    /\ input[1].kind = "raw" /\ Valid(input[2], version)
    /\ AddRaisedFrameError /\ parse = "headers"
    /\ frames = <<>> /\ got = <<>>

-----------------------------------------------------------------------------
(* The asynchronous client: a RECEIPT that arrives after its timeout *)

\* C32 as stated: on a connection, every receipt id the session holds as
\* pending has a waiter in the client, so that the dispatch of a RECEIPT the
\* session accepts raises nothing
ReceiptAlwaysAwaited ==
    protocol = "open" =>
        \A r \in sessionReceipts :
            /\ r \in DOMAIN receipts
            /\ OnReceipt(Client, r).raised = "none"

\* what the client does: a pending receipt id has a waiter until the wait times
\* out or the connection is lost; from then on the session still accepts a
\* RECEIPT for it, and its dispatch raises KeyError, changing neither the other
\* waiters, the completions, the disconnect nor the frames written
LateReceiptRaises ==
    protocol = "open" =>
        \A r \in sessionReceipts :
            LET c == OnReceipt(Client, r)
            IN IF r \in DOMAIN receipts
               THEN c.raised = "none" /\ r \notin DOMAIN c.receipts
               ELSE /\ c.raised = KeyError
                    /\ r \notin c.sessionReceipts
                    /\ c.receipts = receipts /\ c.results = results
                    /\ c.sent = sent /\ c.protocol = protocol
                    /\ SameDisconnect(c)

\* the wait for the receipt of a send has timed out, and the RECEIPT that came
\* late has raised KeyError in the client
LateReceiptRaised ==
    /\ protocol = "open"
    /\ results["r2"] = ReceiptLate
    /\ event.raised = KeyError
    /\ event.arg.command = RECEIPT /\ event.arg.id = "r2"

-----------------------------------------------------------------------------
(* The asynchronous client: a disconnect comes to its end *)

\* C33: with finite timeouts of the drain and of the receipts, and a transport
\* that reports the loss after the client asked it to close, a disconnect that
\* was accepted leads to the close of the transport, and to disconnected being
\* resolved with the connection gone, whether or not the handlers finish and
\* whether or not the broker answers the receipt of DISCONNECT
DisconnectTerminates ==
    /\ disconnecting ~> (loseRequested \/ protocol = "none")
    /\ disconnecting ~> (protocol = "none" /\ ~disconnecting /\ outcomes # <<>>)

\* a disconnect with receipt has ended in the loss of the connection after the
\* drain and the receipt of DISCONNECT both timed out, and disconnected has
\* failed, while a handler is still running
DisconnectTerminatesWitness ==
    /\ protocol = "none" /\ ~disconnecting
    /\ causes = <<HandlersLate, DisconnectReceiptLate>>
    /\ outcomes = <<HandlersLate>>
    /\ DOMAIN messages # {}

====
